---- MODULE Spec2Model ----
(***************************************************************************)
(* A model of discodex's MCP bridge (package codex, type MCPBridge): the   *)
(* supervision of the agent child process, the request/response            *)
(* correlator, the output reader with its event router, the conversation   *)
(* store and the idle supervisor.                                          *)
(*                                                                         *)
(* Goroutines are modelled as processes with a program counter.  One step  *)
(* of a process is either a critical section of m.mu, one operation on a   *)
(* pipe or on the child process, or one select.                            *)
(***************************************************************************)
EXTENDS Integers, Sequences, FiniteSets, TLC

VARIABLES
    m,          \* the fields of the MCPBridge struct
    proc,       \* the child processes spawned so far, with their pipes
    readLoopAt, \* per spawn: where its readLoop goroutine is
    waitAt,     \* per spawn: where its exit-watcher goroutine is
    slot,       \* request id -> content of the buffered response channel
    pc,         \* per caller: position inside ChatMulti
    t,          \* per caller: the locals of its ChatMulti call
    kpc,        \* per idle-timer goroutine: position inside the handler/Close
    k,          \* per idle-timer goroutine: its locals
    now,        \* the clock, in seconds
    crashed,    \* a goroutine panicked: the whole program is gone
    rd,         \* what the line a readLoop has just read caused
    left,       \* what the environment may still do: lines, chat turns;
                \* and, as history, the reasoning deltas of every request
    expect,     \* per owner: the tool the next turn should use
    bm,         \* tail transport: b.m, owner -> its itSession
    its,        \* tail transport: the itSessions made so far, with their child
    dir,        \* tail transport: the session files, path -> modification time
    cpc,        \* tail transport, per caller: position inside Chat
    cl,         \* tail transport, per caller: the locals of its Chat call
    bot,        \* Discord bot: the typing and streams maps of the Bot struct
    mc,         \* Discord bot, per message event: position inside
                \* onMessageCreate, and its turn
    tickers     \* Discord bot: the typing-ticker goroutines started so far

vars == <<m, proc, readLoopAt, waitAt, slot, pc, t, kpc, k, now, crashed,
          rd, left, expect, bm, its, dir, cpc, cl, bot, mc, tickers>>

\* The variables of the Discord bot, which no step of either transport
\* writes.
botVars == <<bot, mc, tickers>>

\* The variables of the tail transport (InteractiveTailBridge), and those of
\* the MCP bridge without the clock; each with the bot's, so that a step of
\* a transport leaves the bot alone.
tailVars == <<bm, its, dir, cpc, cl, botVars>>
bridgeVars == <<m, proc, readLoopAt, waitAt, slot, pc, t, kpc, k, crashed, rd,
                left, expect, botVars>>

----------------------------------------------------------------------------
(* Bounds of the model. *)

\* Children spawned.
MaxSpawn == 2
\* Request ids allocated.
MaxReq == 4
\* Chat turns begun.
MaxTurns == 2
\* Output lines read.
MaxRead == 2
\* Clock ticks.
MaxTime == 4
\* The idle threshold in seconds, where there is one (idle_seconds).
IdleT == 2
\* Output lines read while events are streamed.
MaxStream == 3
\* Tail transport: interactive processes spawned.
MaxTail == 2
\* Tail transport: messages the tailing tasks extract.
MaxMsg == 2
\* Tail transport: messages an agent writes in a row.
MaxBurst == 9
\* Discord bot: typing tickers started.
MaxTick == 3
\* Tail transport: pieces of lines an agent appends to its session file.
MaxBytes == 6

(* Program constants. *)

TruncLen == 120
\* Tail transport: the grace before the process start, in seconds.
Grace == 2
\* Tail transport: the capacity of a session's output queue.
QueueCap == 8

Callers == {"c1", "c2"}
Owners == {"A", "B"}
\* Discord bot: the message events, each handled by a goroutine of its own.
Events == {"u1", "u2"}
Tokens == {"t1", "t2"}
Handlers == {"h1", "h2"}

\* The configuration file as loaded: the [codex] table, and the [[channels]]
\* table of every owner.  Owner A overrides the command and has a working
\* directory and an environment overlay, owner B has none of them.
Conf ==
    [Codex |-> [Command |-> "g", Preamble |-> <<"P">>],
     Channels |->
        [o \in Owners |->
            IF o = "A"
            THEN [ChannelID |-> o, Command |-> "a", Workdir |-> "wa",
                  Env |-> <<"K=a">>]
            ELSE [ChannelID |-> o, Command |-> "", Workdir |-> "",
                  Env |-> <<>>]]]

Procs == 1..MaxSpawn
Ids == 1..MaxReq
\* No child: the nil value of a process, pipe, scanner or channel field.
NoProc == 0

----------------------------------------------------------------------------
(* JSON ids as they appear on the wire, and their decoding. *)

Digits == <<"0", "1", "2", "3", "4", "5", "6", "7", "8", "9">>

IsDigit(c) == \E i \in 1..10 : Digits[i] = c

DigitVal(c) == (CHOOSE i \in 1..10 : Digits[i] = c) - 1

\* A JSON number n (frac = FALSE) or n + 1/2 (frac = TRUE), n >= 0.
NumId(n, frac) == [ty |-> "num", n |-> n, frac |-> frac, s |-> <<>>]
\* A JSON string, as its sequence of characters.
StrId(s) == [ty |-> "str", n |-> 0, frac |-> FALSE, s |-> s]
\* No id member, or one that is neither a number nor a string.
NoId == [ty |-> "none", n |-> 0, frac |-> FALSE, s |-> <<>>]

\* id := int64(v) for a float64 v >= 0: the fraction is dropped.
Int64OfFloat(w) == w.n

RECURSIVE parseIDFrom(_, _, _)
parseIDFrom(s, i, n) ==
    IF i > Len(s) THEN [ok |-> TRUE, n |-> n]
    ELSE IF ~IsDigit(s[i]) THEN [ok |-> FALSE, n |-> 0]
    ELSE parseIDFrom(s, i + 1, n * 10 + DigitVal(s[i]))

\* parseID: digits are accumulated from the left; the empty string gives 0.
parseID(s) == parseIDFrom(s, 1, 0)

\* The request id a wire id is decoded to, or 0 with ok = FALSE.
DecodeId(w) ==
    CASE w.ty = "num" -> [ok |-> TRUE, n |-> Int64OfFloat(w)]
      [] w.ty = "str" -> parseID(w.s)
      [] OTHER -> [ok |-> FALSE, n |-> 0]

\* rv.(float64): the numeric form only, else the zero value.
FloatOnlyId(w) == IF w.ty = "num" THEN Int64OfFloat(w) ELSE 0

truncate(s, n) ==
    IF Len(s) <= n THEN s
    ELSE IF n <= 3 THEN SubSeq(s, 1, n)
    ELSE SubSeq(s, 1, n - 3) \o <<".", ".", ".">>

----------------------------------------------------------------------------
(* Values. *)

NoVal == [has |-> "none", tok |-> "", msgs |-> <<>>, text |-> ""]
\* The payload of a response: a result (with or without a conversationId)
\* or an error object.
Bodies == {[NoVal EXCEPT !.has = "result", !.tok = tk] :
                tk \in Tokens \cup {""}}
            \cup {[NoVal EXCEPT !.has = "error"]}
\* Payloads with what ChatMulti takes the replies from: a result object
\* with agent messages, with a text member or with neither, a result that
\* is no JSON object, and an error object.
Answers == {[has |-> "result", tok |-> "t1", msgs |-> ms, text |-> tx] :
                ms \in {<<>>, <<"H">>, <<"H", "J">>}, tx \in {"", "T"}}
             \cup {[NoVal EXCEPT !.has = "scalar"],
                   [NoVal EXCEPT !.has = "error", !.text = "E"]}

NoTimer == [armed |-> FALSE, at |-> 0]

NoTurn == [owner |-> "", tool |-> "", token |-> "", attempt |-> 0, id |-> 0,
           err1 |-> "", ensure2 |-> "", sends |-> 0, starts |-> 0, ret |-> "",
           res |-> NoVal, want |-> "", user |-> "", args |-> <<>>,
           reply |-> <<>>]

NoClose == [last |-> 0, since |-> 0, cmd |-> NoProc, stdin |-> NoProc,
            id |-> 0, kill |-> FALSE]

NoRead == [line |-> [kind |-> "none"], to |-> 0, cbs |-> <<>>, by |-> NoProc,
           from |-> NoProc, touched |-> FALSE, pending |-> {}, owner |-> "",
           after |-> "none"]

----------------------------------------------------------------------------
(* The initial state: NewMCPBridge with the streaming callbacks registered, *)
(* no process spawned, no caller inside.                                   *)

NewMCPBridge(idle) ==
    [cmd |-> NoProc, stdin |-> NoProc, scan |-> NoProc, ready |-> FALSE,
     reqID |-> 0, pending |-> {}, convo |-> [o \in Owners |-> ""],
     deadCh |-> NoProc, owners |-> [i \in Ids |-> ""],
     reasonBuf |-> [i \in 0..MaxReq |-> <<>>],
     idleSeconds |-> idle, idleTimer |-> NoTimer, lastActive |-> 0,
     onAgentDone |-> TRUE, mu |-> ""]

NoChild == [st |-> "none", stdinOpen |-> FALSE, deadClosed |-> FALSE,
            line |-> "", dir |-> "", env |-> <<>>]

InitBridge(idle, callers, lines, turns) ==
    /\ m = NewMCPBridge(idle)
    /\ proc = [p \in Procs |-> NoChild]
    /\ readLoopAt = [p \in Procs |-> [at |-> "none", sc |-> NoProc]]
    /\ waitAt = [p \in Procs |-> "none"]
    /\ slot = [i \in Ids |-> NoVal]
    /\ pc = [c \in Callers |-> IF c \in callers THEN "idle" ELSE "off"]
    /\ t = [c \in Callers |-> NoTurn]
    /\ kpc = [h \in Handlers |-> "idle"]
    /\ k = [h \in Handlers |-> NoClose]
    /\ now = 0
    /\ crashed = FALSE
    /\ rd = NoRead
    /\ left = [lines |-> lines, turns |-> turns,
               said |-> [i \in Ids |-> <<>>]]
    /\ expect = [o \in Owners |-> ""]

\* The tail transport: its sessions and its callers.
Tails == 1..MaxTail
\* The files below the sessions root in the order WalkDir visits them; the
\* last one is not a .jsonl file.
WalkOrder == <<"f1", "f2", "x">>
Paths == {WalkOrder[i] : i \in 1..Len(WalkOrder)}
Jsonl == {"f1", "f2"}
Msgs == {"m1", "m2"}

\* log is the content the process has appended to its session file, pos
\* the offset of the tailing task's reader in it and base the offset the
\* task started at; pushed is history, the messages the task has sent.
\* discordbot.New: b.typing (channel -> the ticker its cancel function
\* stops, 0 for no entry) and b.streams (the keys that have a streamState).
NewBot == [typing |-> [ch \in Owners |-> 0], streams |-> {}]

\* A message event that has not arrived.  told: the handler posted replies
\* or an error for the turn; ended: EndStream was called for its request.
NoMsg == [at |-> "idle", ch |-> "", id |-> 0, told |-> FALSE, ended |-> FALSE]

NoSession == [st |-> "none", owner |-> "", path |-> "", tail |-> FALSE,
              out |-> <<>>, line |-> "", log |-> <<>>, pos |-> 0,
              base |-> 0, pushed |-> <<>>]
NoChat == [owner |-> "", before |-> <<>>, start |-> 0, cmd |-> NoProc,
           s |-> NoProc, last |-> "", idle |-> [armed |-> FALSE, c |-> FALSE],
           quiet |-> FALSE, ret |-> "", by |-> "", from |-> 0,
           stale |-> FALSE]

\* NewInteractiveTailBridge, with the session files d that exist already.
\* The Discord bot after New: both maps are empty, no message has come.
InitBot ==
    /\ bot = NewBot
    /\ mc = [e \in Events |-> NoMsg]
    /\ tickers = <<>>

InitTailWith(callers, d) ==
    /\ InitBot
    /\ bm = [o \in Owners |-> NoProc]
    /\ its = [n \in Tails |-> NoSession]
    /\ dir = d
    /\ cpc = [c \in Callers |-> IF c \in callers THEN "idle" ELSE "off"]
    /\ cl = [c \in Callers |-> NoChat]

\* The MCP bridge alone: the tail transport is not in use.
InitWith(idle, callers, lines, turns) ==
    /\ InitBridge(idle, callers, lines, turns)
    /\ InitTailWith({}, <<>>)


----------------------------------------------------------------------------
(* Helpers shared by the operations. *)

\* A touchActivity that leaves a timer that is already armed as it is.
touchActivityKeepTimer(mm) ==
    IF mm.idleSeconds <= 0 THEN mm
    ELSE [mm EXCEPT !.lastActive = now,
                    !.idleTimer = IF mm.idleTimer.armed THEN mm.idleTimer
                                  ELSE [armed |-> TRUE,
                                        at |-> now + mm.idleSeconds]]

\* touchActivity: records the activity and replaces the timer by a fresh one.
touchActivity(mm) ==
    IF mm.idleSeconds <= 0 THEN mm
    ELSE [mm EXCEPT !.lastActive = now,
                    !.idleTimer = [armed |-> TRUE, at |-> now + mm.idleSeconds]]

\* isDead: the current death signal has fired.
isDead == proc[m.deadCh].deadClosed

\* A check that never finds the Session usable.
alreadyNever == FALSE

\* The check at the head of ensureStarted.
already == m.ready /\ m.deadCh # NoProc /\ ~isDead

\* m.stdin.Write: a call through a nil interface panics; a pipe closed on our
\* side or whose reader is gone fails; otherwise the line is written.
stdinWrite ==
    IF m.stdin = NoProc THEN "panic"
    ELSE IF ~proc[m.stdin].stdinOpen THEN "closed"
    ELSE IF proc[m.stdin].st # "running" THEN "epipe"
    ELSE "ok"

\* cmd.Process.Kill / killProcessGroup.
Kill(pr, p) ==
    IF p # NoProc /\ pr[p].st = "running"
    THEN [pr EXCEPT ![p].st = "exited"]
    ELSE pr

\* stdin.Close.
CloseStdin(pr, p) ==
    IF p # NoProc THEN [pr EXCEPT ![p].stdinOpen = FALSE] ELSE pr

nspawn == Cardinality({p \in Procs : proc[p].st # "none"})

\* The children that run (a killed child has exited).
Running == {p \in Procs : proc[p].st = "running"}

\* id := atomic.AddInt64(&m.reqID, 1); m.pending[id] = ch; m.owners[id] = owner.
register(mm, owner) ==
    [mm EXCEPT !.reqID = mm.reqID + 1,
               !.pending = mm.pending \cup {mm.reqID + 1},
               !.owners = IF owner # ""
                          THEN [mm.owners EXCEPT ![mm.reqID + 1] = owner]
                          ELSE mm.owners]

\* A forced teardown that also forgets the conversations.
teardownFieldsForget(mm) ==
    [mm EXCEPT !.stdin = NoProc, !.ready = FALSE, !.pending = {},
               !.convo = [o \in Owners |-> ""]]

\* The forced teardown of ChatMulti's error path, on the bridge fields.
teardownFields(mm) ==
    [mm EXCEPT !.stdin = NoProc, !.ready = FALSE, !.pending = {}]

\* Which tool a turn for owner o uses, from the conversation store.
toolFor(mm, o) == IF mm.convo[o] # "" THEN "codex-reply" ELSE "codex"

\* convo.Store after a result: only a non-empty conversationId is stored.
bind(mm, o, res) ==
    IF res.tok # "" THEN [mm EXCEPT !.convo[o] = res.tok] ELSE mm

idleVars == <<kpc, k, now>>
taskVars == <<readLoopAt, waitAt>>

----------------------------------------------------------------------------
(* ChatMulti, with ensureStarted and start inlined at their call sites.    *)
(* A step that only touches what no other goroutine can see yet is joined  *)
(* with the step after it.                                                  *)

\* The bot's handler calls ChatMulti, with the author's tag in the context.
\* Callers are interchangeable: the second one is used only for a turn that
\* overlaps a turn of the first.  The first turn is for owner A.
ChatMultiBegin(c, o) ==
    /\ ~crashed /\ pc[c] = "idle" /\ left.turns > 0
    /\ c = "c1" \/ pc["c1"] # "idle"
    /\ o = "A" \/ m.reqID > 0
    /\ left' = [left EXCEPT !.turns = @ - 1]
    /\ t' = [t EXCEPT ![c] = [NoTurn EXCEPT !.owner = o, !.attempt = 1,
                                            !.user = "u"]]
    /\ pc' = [pc EXCEPT ![c] = "ensureStarted"]
    /\ rd' = NoRead
    /\ UNCHANGED <<m, proc, taskVars, slot, idleVars, crashed, expect,
                   tailVars>>

\* Where ensureStarted returns to: the first call precedes the tool choice,
\* the second one the retry.
AfterEnsure(c) == IF t[c].attempt = 1 THEN "decide" ELSE "send"

ensureStarted(c) ==
    /\ ~crashed /\ pc[c] = "ensureStarted"
    /\ IF already
       THEN /\ pc' = [pc EXCEPT ![c] = AfterEnsure(c)]
            /\ t' = [t EXCEPT ![c].ensure2 =
                        IF t[c].attempt = 2 THEN "already" ELSE ""]
       ELSE /\ pc' = [pc EXCEPT ![c] = "spawn"]
            /\ t' = t
    /\ rd' = NoRead
    /\ UNCHANGED <<m, proc, taskVars, slot, idleVars, crashed, left, expect,
                   tailVars>>

\* The caller's context is known to be done: its wait ended on ctx.Done().
ctxIsDone(c) == t[c].err1 = "ctx"

\* The environment of the bot's own process.
Environ == <<"PATH=/bin">>

\* start: the command line, the owner's override before the global default
\* before the built-in command.
commandLine(ch) ==
    IF ch.Command # "" THEN ch.Command
    ELSE IF Conf.Codex.Command # "" THEN Conf.Codex.Command
    ELSE "codex mcp"

\* A child that has just been started with the channel settings ch: its
\* command line, its working directory, and its environment, which is the
\* overlay alone when there is one and the bot's environment otherwise.
NewChild(ch) ==
    [st |-> "running", stdinOpen |-> TRUE, deadClosed |-> FALSE,
     line |-> commandLine(ch), dir |-> ch.Workdir,
     env |-> IF ch.Env # <<>> THEN ch.Env ELSE Environ]

\* A start that also begins the request ids anew for the new child.
installResetIds(mm, p) ==
    [mm EXCEPT !.cmd = p, !.stdin = p, !.scan = p, !.deadCh = p, !.reqID = 0]

\* start, after cmd.Start(): the fields set under the lock.
install(mm, p) ==
    [mm EXCEPT !.cmd = p, !.stdin = p, !.scan = p, !.deadCh = p]

\* start, from the command line to the launch of the reader and of the exit
\* watcher.  cmd.Start() may fail, and does once the context is done; then
\* start returns the error, and ChatMulti returns it (first call) or the
\* error of its first attempt (second call).
startSpawn(c) ==
    /\ ~crashed /\ pc[c] = "spawn"
    /\ \/ /\ ~ctxIsDone(c) /\ nspawn < MaxSpawn
          /\ proc' = [proc EXCEPT ![nspawn + 1] =
                                NewChild(Conf.Channels[t[c].owner])]
          /\ m' = install(m, nspawn + 1)
          /\ readLoopAt' = [readLoopAt EXCEPT ![nspawn + 1] =
                              [at |-> "scan", sc |-> nspawn + 1]]
          /\ waitAt' = [waitAt EXCEPT ![nspawn + 1] = "waiting"]
          /\ t' = [t EXCEPT ![c].starts = IF t[c].attempt = 2 THEN @ + 1
                                           ELSE @]
          /\ pc' = [pc EXCEPT ![c] = "initialize"]
       \/ /\ UNCHANGED <<proc, m, readLoopAt, waitAt>>
          /\ t' = [t EXCEPT ![c].ret =
                      IF t[c].attempt = 1 THEN "start" ELSE t[c].err1,
                   ![c].ensure2 = IF t[c].attempt = 2 THEN "failed" ELSE ""]
          /\ pc' = [pc EXCEPT ![c] = "done"]
    /\ rd' = NoRead
    /\ UNCHANGED <<slot, idleVars, crashed, left, expect, tailVars>>

\* start: request(ictx, "initialize"): the id, the pending entry, the write.
\* Whatever the write returns, start goes on.
startInitialize(c) ==
    /\ ~crashed /\ pc[c] = "initialize" /\ m.reqID < MaxReq
    /\ m' = register(m, "")
    /\ crashed' = (stdinWrite = "panic")
    /\ t' = [t EXCEPT ![c].id = m.reqID + 1]
    /\ pc' = [pc EXCEPT ![c] = "handshake"]
    /\ rd' = NoRead
    /\ UNCHANGED <<proc, taskVars, slot, idleVars, left, expect, tailVars>>

\* A start that gives up when the initialize request got no response.
startReadyStrict(c) ==
    /\ ~crashed /\ pc[c] = "handshake"
    /\ slot' = [slot EXCEPT ![t[c].id] = NoVal]
    /\ crashed' = (stdinWrite = "panic")
    /\ m' = IF stdinWrite = "panic" \/ slot[t[c].id] = NoVal THEN m
            ELSE touchActivity([m EXCEPT !.ready = TRUE])
    /\ t' = [t EXCEPT ![c].ret = IF slot[t[c].id] = NoVal THEN "start" ELSE @]
    /\ pc' = [pc EXCEPT ![c] = IF slot[t[c].id] = NoVal THEN "done"
                                ELSE AfterEnsure(c)]
    /\ rd' = NoRead
    /\ UNCHANGED <<proc, taskVars, idleVars, left, expect, tailVars>>

\* start: the wait for the initialize response has ended (by the response, by
\* the 700 ms timeout or by the caller's context); then notify("initialized"),
\* the liveness flag, the onUp callback and the idle timer.
startReady(c) ==
    /\ ~crashed /\ pc[c] = "handshake"
    /\ slot' = [slot EXCEPT ![t[c].id] = NoVal]
    /\ crashed' = (stdinWrite = "panic")
    /\ m' = IF stdinWrite = "panic" THEN m
            ELSE touchActivity([m EXCEPT !.ready = TRUE])
    /\ t' = [t EXCEPT ![c].ensure2 = IF t[c].attempt = 2 THEN "started" ELSE ""]
    /\ pc' = [pc EXCEPT ![c] = AfterEnsure(c)]
    /\ rd' = NoRead
    /\ UNCHANGED <<proc, taskVars, idleVars, left, expect, tailVars>>

\* What the next turn of owner o is expected to use, once it is fixed: the
\* start tool after Reset(o), the reply tool with the token a start call
\* returned.
expected(o, tool, res) ==
    IF expect[o] = "" /\ tool = "codex" /\ res.tok # "" THEN res.tok
    ELSE expect[o]

\* The prompt of a turn, and the separator between preamble and prompt.
Prompt == <<"p">>
Sep == <<"\n", "\n">>

\* ChatMulti: the arguments of the tools/call request, by name.  The user
\* tag of the context goes into either call; a call of the start tool gets
\* the preamble in front of its prompt, the sandbox, the approval policy and
\* the owner's working directory.
arguments(mm, ch, user) ==
    LET base == IF user # "" THEN ("prompt" :> Prompt) @@ ("user" :> user)
                ELSE ("prompt" :> Prompt)
        pre == Conf.Codex.Preamble
        first == ("sandbox" :> "workspace-write") @@ ("approval-policy" :> "never")
                   @@ (IF pre # <<>> THEN ("prompt" :> pre \o Sep \o Prompt)
                       ELSE <<>>)
                   @@ base
    IN IF mm.convo[ch.ChannelID] # ""
       THEN ("conversationId" :> mm.convo[ch.ChannelID]) @@ base
       ELSE IF ch.Workdir # "" THEN ("cwd" :> ch.Workdir) @@ first
       ELSE first

\* ChatMulti: touchActivity, then the tool is chosen from the conversation
\* store.
chooseTool(c) ==
    /\ ~crashed /\ pc[c] = "decide"
    /\ m' = touchActivity(m)
    /\ t' = [t EXCEPT ![c].tool = toolFor(m, t[c].owner),
                      ![c].token = m.convo[t[c].owner],
                      ![c].want = expect[t[c].owner],
                      ![c].args = arguments(m, Conf.Channels[t[c].owner],
                                            t[c].user)]
    /\ expect' = [expect EXCEPT ![t[c].owner] = ""]
    /\ pc' = [pc EXCEPT ![c] = "send"]
    /\ rd' = NoRead
    /\ UNCHANGED <<proc, taskVars, slot, idleVars, crashed, left, tailVars>>

\* A ChatMulti that tears down and retries after every failed write.
FailedRetryAgain(c, e) ==
    /\ pc' = [pc EXCEPT ![c] = "teardown"]
    /\ t' = [t EXCEPT ![c].err1 = e, ![c].id = m.reqID + 1, ![c].sends = @ + 1]

\* What ChatMulti does with an error of requestForChannel: the first one
\* leads to the teardown, the second one is returned.
Failed(c, e) ==
    IF t[c].attempt = 1
    THEN /\ pc' = [pc EXCEPT ![c] = "teardown"]
         /\ t' = [t EXCEPT ![c].err1 = e, ![c].id = m.reqID + 1,
                           ![c].sends = @ + 1]
    ELSE /\ pc' = [pc EXCEPT ![c] = "done"]
         /\ t' = [t EXCEPT ![c].ret = e, ![c].id = m.reqID + 1,
                           ![c].sends = @ + 1]

\* requestForChannel: the id, the pending entry, the owner tag, and the write
\* of the request line.
requestForChannel(c) ==
    /\ ~crashed /\ pc[c] = "send" /\ m.reqID < MaxReq
    /\ m' = register(m, t[c].owner)
    /\ crashed' = (stdinWrite = "panic")
    /\ IF stdinWrite \in {"closed", "epipe"}
       THEN Failed(c, "write")
       ELSE /\ pc' = [pc EXCEPT ![c] = "wait"]
            /\ t' = [t EXCEPT ![c].id = m.reqID + 1, ![c].sends = @ + 1]
    /\ rd' = NoRead
    /\ UNCHANGED <<proc, taskVars, slot, idleVars, left, expect, tailVars>>

\* What the wait of requestForChannel leads to when it ends with an error.
WaitFailed(c, e) ==
    IF t[c].attempt = 1
    THEN /\ pc' = [pc EXCEPT ![c] = "teardown"]
         /\ t' = [t EXCEPT ![c].err1 = e]
    ELSE /\ pc' = [pc EXCEPT ![c] = "done"]
         /\ t' = [t EXCEPT ![c].ret = e]

\* A ChatMulti that returns the agent messages of the payload whether or not
\* streaming callbacks are registered.
repliesAlso(mm, res) ==
    IF res.has = "scalar" THEN <<res>>
    ELSE IF res.msgs # <<>> THEN res.msgs
    ELSE IF res.text # "" THEN <<res.text>>
    ELSE <<res>>

\* ChatMulti: the reply list for the payload of a response.  A payload that
\* is no JSON object is the reply as it is.  With streaming callbacks
\* registered a JSON object gives no reply; without them the replies are
\* its agent messages (extractAgentMessages), else its text
\* (extractTextFromResult), else the payload as it is.
replies(mm, res) ==
    IF res.has = "scalar" THEN <<res>>
    ELSE IF mm.onAgentDone THEN <<>>
    ELSE IF res.msgs # <<>> THEN res.msgs
    ELSE IF res.text # "" THEN <<res.text>>
    ELSE <<res>>

\* requestForChannel: the select takes the response; ChatMulti then records
\* the activity, binds the conversationId of the result and returns.
requestReceive(c) ==
    /\ ~crashed /\ pc[c] = "wait" /\ slot[t[c].id] # NoVal
    /\ slot' = [slot EXCEPT ![t[c].id] = NoVal]
    /\ m' = bind(touchActivity(m), t[c].owner, slot[t[c].id])
    /\ expect' = [expect EXCEPT ![t[c].owner] =
                     expected(t[c].owner, t[c].tool, slot[t[c].id])]
    /\ t' = [t EXCEPT ![c].ret = "ok", ![c].res = slot[t[c].id],
                      ![c].reply = replies(m, slot[t[c].id])]
    /\ pc' = [pc EXCEPT ![c] = "done"]
    /\ rd' = NoRead
    /\ UNCHANGED <<proc, taskVars, idleVars, crashed, left, tailVars>>

\* requestForChannel: the select, when the caller's context is done (it is
\* cancelled, or its deadline passes).
requestCancelled(c) ==
    /\ ~crashed /\ pc[c] = "wait"
    /\ WaitFailed(c, "ctx")
    /\ rd' = NoRead
    /\ UNCHANGED <<m, proc, taskVars, slot, idleVars, crashed, left, expect,
                   tailVars>>

\* requestForChannel: the select, when the request timeout elapses first.
requestTimeout(c) ==
    /\ ~crashed /\ pc[c] = "wait" /\ ~ctxIsDone(c)
    /\ WaitFailed(c, "timeout")
    /\ rd' = NoRead
    /\ UNCHANGED <<m, proc, taskVars, slot, idleVars, crashed, left, expect,
                   tailVars>>

\* ChatMulti: the forced teardown before the retry.
teardown(c) ==
    /\ ~crashed /\ pc[c] = "teardown"
    /\ proc' = Kill(CloseStdin(proc, m.stdin), m.cmd)
    /\ m' = teardownFields(m)
    /\ t' = [t EXCEPT ![c].attempt = 2]
    /\ pc' = [pc EXCEPT ![c] = "ensureStarted"]
    /\ rd' = NoRead
    /\ UNCHANGED <<taskVars, slot, idleVars, crashed, left, expect, tailVars>>

\* ChatMulti has returned to the bot's handler, which returns in turn.
ChatMultiReturn(c) ==
    /\ ~crashed /\ pc[c] = "done"
    /\ t' = [t EXCEPT ![c] = NoTurn]
    /\ pc' = [pc EXCEPT ![c] = "idle"]
    /\ rd' = NoRead
    /\ UNCHANGED <<m, proc, taskVars, slot, idleVars, crashed, left, expect,
                   tailVars>>

\* A Reset that forgets the conversations of all owners.
ResetAll(o) ==
    /\ ~crashed
    /\ m' = [m EXCEPT !.convo = [q \in Owners |-> ""]]
    /\ expect' = [expect EXCEPT ![o] = "codex"]
    /\ rd' = NoRead
    /\ UNCHANGED <<proc, taskVars, slot, pc, t, idleVars, crashed, left,
                   tailVars>>

\* Reset(channelID).
Reset(o) ==
    /\ ~crashed
    /\ m' = [m EXCEPT !.convo[o] = ""]
    /\ expect' = [expect EXCEPT ![o] = "codex"]
    /\ rd' = NoRead
    /\ UNCHANGED <<proc, taskVars, slot, pc, t, idleVars, crashed, left,
                   tailVars>>

----------------------------------------------------------------------------
(* The lines the agent may put on its output.  A line is consumed by the   *)
(* readLoop that is blocked in Scan on that child's pipe.                   *)

\* Ids as the protocol writes them, and ids of other shapes: a number with
\* a fraction, strings (exact, with a leading zero, empty, not decimal), none.
PlainIds == {NumId(n, FALSE) : n \in Ids}
OddIds == {NumId(1, TRUE), StrId(<<"1">>), StrId(<<"0", "2">>), StrId(<<>>),
           StrId(<<"1", "x">>), NoId}
EventIds == {NumId(2, FALSE), NumId(3, FALSE), StrId(<<"2">>), NoId}

EventTypes == {"agent_reasoning_delta", "agent_reasoning", "agent_message_delta",
               "agent_message", "task_complete", "token_count"}

Texts == {<<>>, <<"H">>}

\* The texts an event of a type is read with.
TextsOf(ty) ==
    CASE ty \in {"task_complete", "token_count"} -> {<<>>}
      [] ty = "agent_message" -> {<<"H">>}
      [] OTHER -> Texts

Line(kind, id, body, method, msg, typ, text) ==
    [kind |-> kind, id |-> id, body |-> body, method |-> method, msg |-> msg,
     typ |-> typ, text |-> text]

BlankLine == Line("blank", NoId, NoVal, "", FALSE, "", <<>>)
\* A line that is not a JSON object.
GarbageLine == Line("garbage", NoId, NoVal, "", FALSE, "", <<>>)
\* A line longer than the scanner's 1 MiB buffer.
LongLine == Line("toolong", NoId, NoVal, "", FALSE, "", <<>>)

RespLines == {Line("resp", w, b, "", FALSE, "", <<>>) :
                w \in PlainIds, b \in Bodies \cup {NoVal}}
               \cup {Line("resp", w, [NoVal EXCEPT !.has = "result"], "", FALSE,
                          "", <<>>) : w \in OddIds}

\* codex/event notifications, one without a msg member, and a notification
\* of another method.
EventLines == UNION {{Line("notif", w, NoVal, "codex/event", TRUE, ty, tx) :
                        w \in EventIds, tx \in TextsOf(ty)} : ty \in EventTypes}
                \cup {Line("notif", NumId(2, FALSE), NoVal, "codex/event", FALSE,
                           "", <<>>),
                      Line("notif", NumId(2, FALSE), NoVal, "other", TRUE,
                           "agent_message", <<"H">>)}

Lines == {BlankLine, GarbageLine, LongLine} \cup RespLines \cup EventLines

Cb(name, owner, req, text) ==
    [cb |-> name, owner |-> owner, req |-> req, text |-> text]

\* A deliver that sends the value and leaves the pending entry in place.
deliverKeep(mm, sl, id, v) ==
    IF id \in mm.pending
    THEN [m |-> mm, slot |-> [sl EXCEPT ![id] = v], to |-> id]
    ELSE [m |-> mm, slot |-> sl, to |-> 0]

\* deliver: the pending entry is removed and the value sent on its channel.
deliver(mm, sl, id, v) ==
    IF id \in mm.pending
    THEN [m |-> [mm EXCEPT !.pending = @ \ {id}],
          slot |-> [sl EXCEPT ![id] = v], to |-> id]
    ELSE [m |-> mm, slot |-> sl, to |-> 0]

\* handleNotify: the owner registered for the event's request id.
ownerOf(mm, w) ==
    IF DecodeId(w).ok /\ DecodeId(w).n \in Ids THEN mm.owners[DecodeId(w).n]
    ELSE ""

\* Callbacks that are invoked whether or not the owner is known.
IfOwnerOrNot(owner, cbs) == cbs

\* The callbacks are invoked only for a known owner.
IfOwner(owner, cbs) == IF owner # "" THEN cbs ELSE <<>>

\* The streaming callbacks are invoked only if they are registered.
IfStream(mm, cbs) == IF mm.onAgentDone THEN cbs ELSE <<>>

\* handleNotify, after touchActivity: the switch on msg.type.
dispatch(mm, l, owner) ==
    LET key == FloatOnlyId(l.id) IN
    CASE l.typ = "agent_reasoning_delta" /\ l.text # <<>> ->
           [m |-> [mm EXCEPT !.reasonBuf[key] = @ \o l.text],
            cbs |-> IfOwner(owner,
                      <<Cb("onReasoning", owner, 0,
                           truncate(mm.reasonBuf[key] \o l.text, TruncLen))>>)]
      [] l.typ = "agent_reasoning" /\ l.text # <<>> ->
           [m |-> mm,
            cbs |-> IfOwner(owner,
                      <<Cb("onReasoning", owner, 0, truncate(l.text, TruncLen))>>)]
      [] l.typ = "agent_message_delta" /\ l.text # <<>> ->
           [m |-> mm,
            cbs |-> IfOwner(owner,
                      IfStream(mm, <<Cb("onAgentDelta", owner, key, l.text)>>))]
      [] l.typ = "agent_message" ->
           [m |-> [mm EXCEPT !.reasonBuf[key] = <<>>],
            cbs |-> IfOwner(owner,
                      IfStream(mm, <<Cb("onAgentDone", owner, key, l.text)>>)
                        \o <<Cb("onReasoningEnd", owner, 0, <<>>)>>)]
      [] l.typ = "task_complete" ->
           [m |-> [mm EXCEPT !.reasonBuf[key] = <<>>],
            cbs |-> IfOwner(owner, <<Cb("onReasoningEnd", owner, 0, <<>>)>>)]
      [] OTHER -> [m |-> mm, cbs |-> <<>>]

\* handleNotify.
handleNotify(mm, l) ==
    IF l.method # "codex/event" \/ ~l.msg
    THEN [m |-> mm, cbs |-> <<>>, touched |-> FALSE]
    ELSE [m |-> dispatch(touchActivity(mm), l, ownerOf(mm, l.id)).m,
          cbs |-> dispatch(touchActivity(mm), l, ownerOf(mm, l.id)).cbs,
          touched |-> TRUE]

\* The body of readLoop for one line: what it does to the bridge and to the
\* response channels, whom it delivers to, which callbacks it invokes.
handleLine(mm, sl, l) ==
    CASE l.kind = "notif" ->
           [m |-> handleNotify(mm, l).m, slot |-> sl, to |-> 0,
            cbs |-> handleNotify(mm, l).cbs,
            touched |-> handleNotify(mm, l).touched]
      [] l.kind = "resp" /\ DecodeId(l.id).ok /\ l.body # NoVal ->
           [m |-> deliver(mm, sl, DecodeId(l.id).n, l.body).m,
            slot |-> deliver(mm, sl, DecodeId(l.id).n, l.body).slot,
            to |-> deliver(mm, sl, DecodeId(l.id).n, l.body).to,
            cbs |-> <<>>, touched |-> FALSE]
      [] OTHER -> [m |-> mm, slot |-> sl, to |-> 0, cbs |-> <<>>,
                   touched |-> FALSE]

\* History: the reasoning deltas of every request since its last final
\* message or task_complete, by the request the event's id decodes to.
saying(sd, l) ==
    IF l.kind = "notif" /\ l.method = "codex/event" /\ l.msg
         /\ DecodeId(l.id).ok /\ DecodeId(l.id).n \in Ids
    THEN CASE l.typ = "agent_reasoning_delta" ->
                [sd EXCEPT ![DecodeId(l.id).n] = @ \o l.text]
           [] l.typ \in {"agent_message", "task_complete"} ->
                [sd EXCEPT ![DecodeId(l.id).n] = <<>>]
           [] OTHER -> sd
    ELSE sd

\* The readLoop goroutine r is blocked in Scan on a pipe that is still fed.
\* Scan returns false at the end of the pipe of an exited child, which ends
\* the loop.
reading(r) ==
    /\ readLoopAt[r].at = "scan"
    /\ proc[readLoopAt[r].sc].st = "running"

\* How the line of rd was disposed of: not parsed, an event without a
\* registered owner, or handled.
Disposal(r) ==
    CASE r.line.kind = "none" -> "none"
      [] r.line.kind \in {"blank", "garbage"} -> "unparsed"
      [] r.line.kind = "notif" /\ r.line.method = "codex/event" /\ r.line.msg
           /\ r.owner = "" -> "unrouted"
      [] OTHER -> "handled"

\* readLoop: Scan returns a line, the body handles it, and the loop head reads
\* m.scan again for the next Scan.  A line that does not fit the buffer ends
\* the loop.
readLoopLine(r, l) ==
    /\ ~crashed /\ reading(r) /\ left.lines > 0
    /\ left' = [left EXCEPT !.lines = @ - 1, !.said = saying(@, l)]
    /\ m' = handleLine(m, slot, l).m
    /\ slot' = handleLine(m, slot, l).slot
    /\ rd' = [line |-> l, to |-> handleLine(m, slot, l).to,
              cbs |-> handleLine(m, slot, l).cbs, by |-> r,
              from |-> readLoopAt[r].sc,
              touched |-> handleLine(m, slot, l).touched,
              pending |-> m.pending, owner |-> ownerOf(m, l.id),
              after |-> Disposal(rd)]
    /\ readLoopAt' = [readLoopAt EXCEPT ![r] =
                        IF l.kind = "toolong" THEN [at |-> "done", sc |-> NoProc]
                        ELSE [at |-> "scan", sc |-> m.scan]]
    /\ UNCHANGED <<proc, waitAt, pc, t, idleVars, crashed, expect, tailVars>>

\* The streaming events of an agent that works on the chat requests it was
\* sent and has not answered, with the request id as the protocol writes it.
Streaming ==
    {Line("notif", NumId(i, FALSE), NoVal, "codex/event", TRUE, ty, <<"H">>) :
       i \in {j \in m.pending : m.owners[j] # ""},
       ty \in {"agent_message_delta", "agent_message"}}

\* The position of the next line among the lines read.
Position == MaxStream - left.lines + 1

\* readLoop, the loop head alone: Scan returns the line l, which the body has
\* not handled yet.
readLoopScan(r, l) ==
    /\ ~crashed /\ reading(r) /\ left.lines > 0
    /\ left' = [left EXCEPT !.lines = @ - 1]
    /\ readLoopAt' = [readLoopAt EXCEPT ![r] =
                        [at |-> "body", sc |-> readLoopAt[r].sc, line |-> l,
                         n |-> Position]]
    /\ rd' = NoRead
    /\ UNCHANGED <<m, proc, waitAt, slot, pc, t, idleVars, crashed, expect,
                   tailVars>>

\* Two readLoop goroutines are inside Scan of one Scanner, which is not made
\* for that: each may get a line of its own (readLoopScan), or both the same.
readLoopScanBoth(r, q, l) ==
    /\ ~crashed /\ r # q /\ reading(r) /\ reading(q) /\ left.lines > 0
    /\ readLoopAt[r].sc = readLoopAt[q].sc
    /\ left' = [left EXCEPT !.lines = @ - 1]
    /\ readLoopAt' = [readLoopAt EXCEPT
                        ![r] = [at |-> "body", sc |-> readLoopAt[r].sc,
                                line |-> l, n |-> Position],
                        ![q] = [at |-> "body", sc |-> readLoopAt[q].sc,
                                line |-> l, n |-> Position]]
    /\ rd' = NoRead
    /\ UNCHANGED <<m, proc, waitAt, slot, pc, t, idleVars, crashed, expect,
                   tailVars>>

\* readLoop, the body for the line Scan returned, up to the loop head, which
\* reads m.scan for the next Scan.
readLoopBody(r) ==
    /\ ~crashed /\ readLoopAt[r].at = "body"
    /\ m' = handleLine(m, slot, readLoopAt[r].line).m
    /\ slot' = handleLine(m, slot, readLoopAt[r].line).slot
    /\ rd' = [line |-> readLoopAt[r].line,
              to |-> handleLine(m, slot, readLoopAt[r].line).to,
              cbs |-> handleLine(m, slot, readLoopAt[r].line).cbs, by |-> r,
              from |-> readLoopAt[r].sc,
              touched |-> handleLine(m, slot, readLoopAt[r].line).touched,
              pending |-> m.pending,
              owner |-> ownerOf(m, readLoopAt[r].line.id),
              after |-> Disposal(rd), n |-> readLoopAt[r].n]
    /\ readLoopAt' = [readLoopAt EXCEPT ![r] = [at |-> "scan", sc |-> m.scan]]
    /\ left' = [left EXCEPT !.said = saying(@, readLoopAt[r].line)]
    /\ UNCHANGED <<proc, waitAt, pc, t, idleVars, crashed, expect, tailVars>>

----------------------------------------------------------------------------
(* The child processes and their exit watchers. *)

\* A child exits on its own, or is killed from outside (a signal, or the
\* exec package once the context its command was built with is done).
procExit(p) ==
    /\ ~crashed /\ proc[p].st = "running"
    /\ proc' = [proc EXCEPT ![p].st = "exited"]
    /\ rd' = NoRead
    /\ UNCHANGED <<m, taskVars, slot, pc, t, idleVars, crashed, left, expect,
                   tailVars>>

\* The goroutine of start that waits for the child: cmd.Wait returned.
exitWatcher(p) ==
    /\ ~crashed /\ waitAt[p] = "waiting" /\ proc[p].st = "exited"
    /\ m' = [m EXCEPT !.ready = FALSE]
    /\ proc' = [proc EXCEPT ![p].deadClosed = TRUE]
    /\ waitAt' = [waitAt EXCEPT ![p] = "done"]
    /\ rd' = NoRead
    /\ UNCHANGED <<readLoopAt, slot, pc, t, idleVars, crashed, left, expect,
                   tailVars>>

----------------------------------------------------------------------------
(* The idle supervisor: the clock, the timer armed by touchActivity, its    *)
(* handler, and Close as the handler runs it.                               *)

Tick ==
    /\ ~crashed /\ now < MaxTime
    /\ now' = now + 1
    /\ rd' = NoRead
    /\ UNCHANGED <<m, proc, taskVars, slot, pc, t, kpc, k, crashed, left,
                   expect, tailVars>>

\* The timer m.idleTimer expires and its function starts in a new goroutine.
timerFire(h) ==
    /\ ~crashed /\ kpc[h] = "idle"
    /\ m.idleTimer.armed /\ now >= m.idleTimer.at
    /\ m' = [m EXCEPT !.idleTimer.armed = FALSE]
    /\ kpc' = [kpc EXCEPT ![h] = "fired"]
    /\ k' = [k EXCEPT ![h] = NoClose]
    /\ rd' = NoRead
    /\ UNCHANGED <<proc, taskVars, slot, pc, t, now, crashed, left, expect,
                   tailVars>>

\* The handler, under the lock: the threshold and the last activity.
idleRead(h) ==
    /\ ~crashed /\ kpc[h] = "fired"
    /\ kpc' = [kpc EXCEPT ![h] = IF m.idleSeconds <= 0 THEN "idle" ELSE "check"]
    /\ k' = [k EXCEPT ![h].last = m.lastActive]
    /\ rd' = NoRead
    /\ UNCHANGED <<m, proc, taskVars, slot, pc, t, now, crashed, left,
                   expect, tailVars>>

\* Whether the handler goes on to Close: time.Since(last) >= sec.
idleExpired(last) == ~(now - last < m.idleSeconds)

\* The handler, after the lock: the re-check, then the call of Close.
idleCheck(h) ==
    /\ ~crashed /\ kpc[h] = "check"
    /\ kpc' = [kpc EXCEPT ![h] = IF idleExpired(k[h].last) THEN "close" ELSE "idle"]
    /\ k' = [k EXCEPT ![h].since = now - m.lastActive]
    /\ rd' = NoRead
    /\ UNCHANGED <<m, proc, taskVars, slot, pc, t, now, crashed, left,
                   expect, tailVars>>

\* Close: cmd and stdin are read under the lock.
closeSnapshot(h) ==
    /\ ~crashed /\ kpc[h] = "close"
    /\ k' = [k EXCEPT ![h].cmd = m.cmd, ![h].stdin = m.stdin]
    /\ kpc' = [kpc EXCEPT ![h] = IF m.stdin # NoProc THEN "shutdown"
                                  ELSE IF m.cmd # NoProc THEN "waitExit"
                                  ELSE "idle"]
    /\ rd' = NoRead
    /\ UNCHANGED <<m, proc, taskVars, slot, pc, t, now, crashed, left,
                   expect, tailVars>>

\* Close: request(ctx, "shutdown"): the id, the pending entry, the write.
closeRequest(h) ==
    /\ ~crashed /\ kpc[h] = "shutdown" /\ m.reqID < MaxReq
    /\ m' = register(m, "")
    /\ crashed' = (stdinWrite = "panic")
    /\ k' = [k EXCEPT ![h].id = m.reqID + 1]
    /\ kpc' = [kpc EXCEPT ![h] = "exit"]
    /\ rd' = NoRead
    /\ UNCHANGED <<proc, taskVars, slot, pc, t, now, left, expect, tailVars>>

\* Close: the wait for the shutdown response has ended (by the response or by
\* the 400 ms timeout); then notify("exit").
closeExit(h) ==
    /\ ~crashed /\ kpc[h] = "exit"
    /\ slot' = [slot EXCEPT ![k[h].id] = NoVal]
    /\ crashed' = (stdinWrite = "panic")
    /\ kpc' = [kpc EXCEPT ![h] = "closeStdin"]
    /\ rd' = NoRead
    /\ UNCHANGED <<m, proc, taskVars, pc, t, k, now, left, expect, tailVars>>

\* Close: after the sleep, the input stream read at the start is closed.
closeStdin(h) ==
    /\ ~crashed /\ kpc[h] = "closeStdin"
    /\ proc' = CloseStdin(proc, k[h].stdin)
    /\ kpc' = [kpc EXCEPT ![h] = IF k[h].cmd # NoProc THEN "waitExit" ELSE "idle"]
    /\ rd' = NoRead
    /\ UNCHANGED <<m, taskVars, slot, pc, t, k, now, crashed, left, expect,
                   tailVars>>

\* A Close that kills the process group and the process after its wait,
\* however the wait ended.
closeWaitExitKill(h) ==
    /\ ~crashed /\ kpc[h] = "waitExit"
    /\ proc' = Kill(proc, k[h].cmd)
    /\ k' = [k EXCEPT ![h].kill = TRUE]
    /\ kpc' = [kpc EXCEPT ![h] = "idle"]
    /\ rd' = NoRead
    /\ UNCHANGED <<m, taskVars, slot, pc, t, now, crashed, left, expect,
                   tailVars>>

\* Close: the select on the child's exit and on the second timeout.  A child
\* that has exited ends the wait; for one that still runs the timeout
\* elapses, and the process group and the process are killed.
closeWaitExit(h) ==
    /\ ~crashed /\ kpc[h] = "waitExit"
    /\ proc' = Kill(proc, k[h].cmd)
    /\ k' = [k EXCEPT ![h].kill = (proc[k[h].cmd].st = "running")]
    /\ kpc' = [kpc EXCEPT ![h] = "idle"]
    /\ rd' = NoRead
    /\ UNCHANGED <<m, taskVars, slot, pc, t, now, crashed, left, expect,
                   tailVars>>

----------------------------------------------------------------------------
(* The tail transport (InteractiveTailBridge): ensure with the discovery   *)
(* of the session file, the tailing task, and Chat with its collect loop.   *)

\* snapshotSessionFiles: the modification time of every .jsonl file.
snapshotSessionFiles(d) ==
    [p \in DOMAIN d \cap Jsonl |-> d[p]]

\* Whether one scan of waitNewSessionFileFromSnapshot takes the file p into
\* account: a .jsonl file, not modified before the start less the grace, and
\* new or modified later than the baseline has it.
Considered(d, before, since, p) ==
    /\ p \in DOMAIN d /\ p \in Jsonl
    /\ ~(d[p] < since - Grace)
    /\ ~(p \in DOMAIN before /\ ~(d[p] > before[p]))

\* The walk of one scan from the i-th file on: the candidate is replaced by
\* a file that is taken into account and was modified later than it (the
\* zero time, with which the scan begins, precedes every time).
RECURSIVE walk(_, _, _, _, _)
walk(d, before, since, i, cand) ==
    IF i > Len(WalkOrder) THEN cand.path
    ELSE IF /\ Considered(d, before, since, WalkOrder[i])
            /\ (cand.path = "" \/ d[WalkOrder[i]] > cand.mt)
         THEN walk(d, before, since, i + 1,
                   [path |-> WalkOrder[i], mt |-> d[WalkOrder[i]]])
         ELSE walk(d, before, since, i + 1, cand)

\* One scan of waitNewSessionFileFromSnapshot: the candidate, or "".
candidate(d, before, since) ==
    walk(d, before, since, 1, [path |-> "", mt |-> 0])

\* ensure: the command line, the owner's override or else the built-in
\* interactive command.
tailCommandLine(ch) ==
    IF ch.Command # "" THEN ch.Command
    ELSE "codex -a never --sandbox workspace-write"

ntail == Cardinality({n \in Tails : its[n].st # "none"})

\* Chat is called for owner o.  Callers are interchangeable: the second one
\* is used only for a call that overlaps a call of the first.
ChatBegin(c, o) ==
    /\ cpc[c] = "idle" /\ left.turns > 0
    /\ c = "c1" \/ cpc["c1"] # "idle"
    /\ left' = [left EXCEPT !.turns = @ - 1]
    /\ cl' = [cl EXCEPT ![c] = [NoChat EXCEPT !.owner = o]]
    /\ cpc' = [cpc EXCEPT ![c] = "ensure"]
    /\ UNCHANGED <<m, proc, readLoopAt, waitAt, slot, pc, t, kpc, k, crashed,
                   rd, expect, now, bm, its, dir, botVars>>

\* ensure: the lookup of the owner's session under the lock; without one,
\* the baseline snapshot of the session files.
ensure(c) ==
    /\ cpc[c] = "ensure"
    /\ IF bm[cl[c].owner] # NoProc
       THEN /\ cl' = [cl EXCEPT ![c].s = bm[cl[c].owner]]
            /\ cpc' = [cpc EXCEPT ![c] = "write"]
       ELSE /\ cl' = [cl EXCEPT ![c].before = snapshotSessionFiles(dir)]
            /\ cpc' = [cpc EXCEPT ![c] = "spawn"]
    /\ UNCHANGED <<bridgeVars, now, bm, its, dir>>

\* ensure: cmd.Start() for the interactive process, which may fail.
ensureSpawn(c) ==
    /\ cpc[c] = "spawn"
    /\ \/ /\ ntail < MaxTail
          /\ its' = [its EXCEPT ![ntail + 1] =
                        [NoSession EXCEPT
                            !.st = "running", !.owner = cl[c].owner,
                            !.line = tailCommandLine(
                                        Conf.Channels[cl[c].owner])]]
          /\ cl' = [cl EXCEPT ![c].start = now, ![c].cmd = ntail + 1]
          /\ cpc' = [cpc EXCEPT ![c] = "discover"]
       \/ /\ cl' = [cl EXCEPT ![c].ret = "start"]
          /\ cpc' = [cpc EXCEPT ![c] = "done"]
          /\ its' = its
    /\ UNCHANGED <<bridgeVars, now, bm, dir>>

\* ensure: a scan of waitNewSessionFileFromSnapshot finds the session file;
\* the queue is made, the tailing task started on the file, and the session
\* stored for the owner.
ensureFound(c) ==
    /\ cpc[c] = "discover"
    /\ candidate(dir, cl[c].before, cl[c].start) # ""
    /\ its' = [its EXCEPT ![cl[c].cmd].path =
                             candidate(dir, cl[c].before, cl[c].start),
                          ![cl[c].cmd].tail = TRUE,
                          ![cl[c].cmd].pos = Len(its[cl[c].cmd].log),
                          ![cl[c].cmd].base = Len(its[cl[c].cmd].log)]
    /\ bm' = [bm EXCEPT ![cl[c].owner] = cl[c].cmd]
    /\ cl' = [cl EXCEPT ![c].s = cl[c].cmd]
    /\ cpc' = [cpc EXCEPT ![c] = "write"]
    /\ UNCHANGED <<bridgeVars, now, dir>>

\* ensure: no scan has found a file when the discovery times out; the
\* process is killed and the error returned.
ensureNotFound(c) ==
    /\ cpc[c] = "discover"
    /\ candidate(dir, cl[c].before, cl[c].start) = ""
    /\ its' = [its EXCEPT ![cl[c].cmd].st = "exited"]
    /\ cl' = [cl EXCEPT ![c].ret = "notfound"]
    /\ cpc' = [cpc EXCEPT ![c] = "done"]
    /\ UNCHANGED <<bridgeVars, now, bm, dir>>

\* Chat: the prompt is written to the session's input stream, which fails
\* once the process is gone; then the two timers are made.
ChatWrite(c) ==
    /\ cpc[c] = "write"
    /\ IF its[cl[c].s].st = "running"
       THEN /\ cl' = [cl EXCEPT ![c].idle = [armed |-> TRUE, c |-> FALSE],
                               ![c].from = Len(its[cl[c].s].pushed)]
            /\ cpc' = [cpc EXCEPT ![c] = "collect"]
       ELSE /\ cl' = [cl EXCEPT ![c].ret = "write"]
            /\ cpc' = [cpc EXCEPT ![c] = "done"]
    /\ UNCHANGED <<bridgeVars, now, bm, its, dir>>

\* The idle timer of a collecting Chat expires: no Reset for the idle gap.
\* The tick goes into the timer's channel.
idleTimerFire(c) ==
    /\ cpc[c] = "collect" /\ cl[c].idle.armed
    /\ cl' = [cl EXCEPT ![c].idle = [armed |-> FALSE, c |-> TRUE],
                        ![c].quiet = TRUE]
    /\ UNCHANGED <<bridgeVars, now, bm, its, dir, cpc>>

\* Chat, case m := <-s.out: the message becomes the latest one and the idle
\* timer is Reset, which leaves a tick that is in the channel already where
\* it is (timers up to Go 1.22, the version the repository asks for) or
\* discards it (from Go 1.23 on).
ChatMessage(c) ==
    /\ cpc[c] = "collect" /\ its[cl[c].s].out # <<>>
    /\ its' = [its EXCEPT ![cl[c].s].out = Tail(@)]
    /\ \E tick \in {cl[c].idle.c, FALSE} :
          cl' = [cl EXCEPT ![c].last = Head(its[cl[c].s].out),
                           ![c].idle = [armed |-> TRUE, c |-> tick],
                           ![c].quiet = FALSE,
                           ![c].stale =
                               Len(its[cl[c].s].pushed)
                                 - Len(its[cl[c].s].out) < cl[c].from]
    /\ UNCHANGED <<bridgeVars, now, bm, dir, cpc>>

\* Chat, case <-idle.C: the latest message is returned if there is one, else
\* the timer is Reset.
ChatIdle(c) ==
    /\ cpc[c] = "collect" /\ cl[c].idle.c
    /\ IF cl[c].last # ""
       THEN /\ cl' = [cl EXCEPT ![c].idle = [armed |-> FALSE, c |-> FALSE],
                               ![c].ret = "ok", ![c].by = "idle"]
            /\ cpc' = [cpc EXCEPT ![c] = "done"]
       ELSE /\ cl' = [cl EXCEPT ![c].idle = [armed |-> TRUE, c |-> FALSE]]
            /\ cpc' = cpc
    /\ UNCHANGED <<bridgeVars, now, bm, its, dir>>

\* Chat, case <-deadline.C: the hard timeout.
ChatDeadline(c) ==
    /\ cpc[c] = "collect"
    /\ cl' = [cl EXCEPT ![c].ret = IF cl[c].last = "" THEN "timeout" ELSE "ok",
                        ![c].by = "deadline"]
    /\ cpc' = [cpc EXCEPT ![c] = "done"]
    /\ UNCHANGED <<bridgeVars, now, bm, its, dir>>

\* Chat, case <-ctx.Done(): the caller's context is done.  The process this
\* call has started, if any, was started with that context and is killed.
ChatCancelled(c) ==
    /\ cpc[c] = "collect"
    /\ cl' = [cl EXCEPT ![c].ret = IF cl[c].last = "" THEN "ctx" ELSE "ok",
                        ![c].by = "ctx"]
    /\ cpc' = [cpc EXCEPT ![c] = "done"]
    /\ its' = IF cl[c].cmd # NoProc
              THEN [its EXCEPT ![cl[c].cmd].st = "exited"] ELSE its
    /\ UNCHANGED <<bridgeVars, now, bm, dir>>

\* Chat has returned to its caller.
ChatReturn(c) ==
    /\ cpc[c] = "done"
    /\ cl' = [cl EXCEPT ![c] = NoChat]
    /\ cpc' = [cpc EXCEPT ![c] = "idle"]
    /\ UNCHANGED <<bridgeVars, now, bm, its, dir>>

\* tailJSONL: a line with an agent message has been appended to the file
\* the task of session n tails; the task extracts the message and sends it
\* on the session's queue, which blocks while the queue is full.
tailJSONL(n, msg) ==
    /\ its[n].tail /\ Len(its[n].out) < QueueCap /\ left.lines > 0
    /\ left' = [left EXCEPT !.lines = @ - 1]
    /\ its' = [its EXCEPT ![n].out = Append(@, msg),
                          ![n].pushed = Append(@, msg)]
    /\ UNCHANGED <<m, proc, readLoopAt, waitAt, slot, pc, t, kpc, k, crashed,
                   rd, expect, now, bm, dir, cpc, cl, botVars>>

\* The line of an agent-message record in the session file, as the pieces
\* it may be written in: the record up to the message, its rest, and the
\* newline.
Record(msg) == <<msg, "}", "\n">>

\* extractAgentMessageFromAnyJSON: the message of a line that is a whole
\* record; a part of a record's line is not JSON and gives nothing.
extractAgentMessageFromAnyJSON(line) ==
    IF \E msg \in Msgs : line = Record(msg) THEN line[1] ELSE ""

\* The process appends the next piece of a record's line to its session
\* file; a write may end anywhere in a line.
agentAppend(n, msg) ==
    /\ its[n].st = "running" /\ Len(its[n].log) < MaxBytes
    /\ its' = [its EXCEPT ![n].log =
                  Append(@, IF Len(@) % 3 = 0 THEN msg
                            ELSE Record(msg)[(Len(@) % 3) + 1])]
    /\ UNCHANGED <<bridgeVars, now, bm, dir, cpc, cl>>

\* What the reader of session n has not read yet.
unread(n) == SubSeq(its[n].log, its[n].pos + 1, Len(its[n].log))

\* The length of the first line of the pieces b, its newline included; 0
\* if they hold no newline.
RECURSIVE lineEnd(_, _)
lineEnd(b, i) ==
    IF i > Len(b) THEN 0 ELSE IF b[i] = "\n" THEN i ELSE lineEnd(b, i + 1)

\* tailJSONL, one turn of its loop with something to read.  ReadString
\* returns the next line, whose message, if it has one, is sent on the
\* queue; or it reaches the end of the file before a newline and returns
\* what it has read with io.EOF, and the loop sleeps and goes on with the
\* next ReadString.
tailReadString(n) ==
    /\ its[n].tail /\ unread(n) # <<>>
    /\ LET e == lineEnd(unread(n), 1)
           got == extractAgentMessageFromAnyJSON(SubSeq(unread(n), 1, e))
       IN IF e = 0
          THEN its' = [its EXCEPT ![n].pos = Len(its[n].log)]
          ELSE /\ got # "" => Len(its[n].out) < QueueCap
               /\ its' = [its EXCEPT
                            ![n].pos = @ + e,
                            ![n].out = IF got # "" THEN Append(@, got) ELSE @,
                            ![n].pushed =
                                IF got # "" THEN Append(@, got) ELSE @]
    /\ UNCHANGED <<bridgeVars, now, bm, dir, cpc, cl>>

\* An interactive process exits, or is killed from outside.
agentExit(n) ==
    /\ its[n].st = "running"
    /\ its' = [its EXCEPT ![n].st = "exited"]
    /\ UNCHANGED <<bridgeVars, now, bm, dir, cpc, cl>>

\* An agent creates the file p below the sessions root, or writes to it.
fileWritten(p) ==
    /\ IF p \in DOMAIN dir THEN dir[p] # now ELSE TRUE
    /\ dir' = [q \in DOMAIN dir \cup {p} |-> IF q = p THEN now ELSE dir[q]]
    /\ UNCHANGED <<bridgeVars, now, bm, its, cpc, cl>>

----------------------------------------------------------------------------
(* The instance mutex of the MCP bridge.  Each function is the sequence of  *)
(* its operations that take or release m.mu, that can wait, that call      *)
(* another function or that start a task; the data they work on is left    *)
(* out, so every branch is a free choice.  A task is a stack of frames.    *)

LockTasks == {"c1", "readLoop", "wait", "AfterFunc"}

Do(o) == [op |-> o, f |-> "", to |-> {}]
Call(f) == [op |-> "call", f |-> f, to |-> {}]
Go(f) == [op |-> "go", f |-> f, to |-> {}]
\* A branch to one of the positions S; the position after the last
\* operation of a function is its return.
Jmp(S) == [op |-> "jmp", f |-> "", to |-> S]

\* A request that writes to the input stream before it releases the mutex.
requestHeld ==
    <<Do("Lock"), Do("upd"), Do("write"), Do("Unlock"),
      Jmp({5, 6}), Do("wait")>>

\* request: the entry in the pending table is made under the mutex; the
\* write to the input stream and the wait for the response, the timeout or
\* the context come after the Unlock.  A failed write returns.
request ==
    <<Do("Lock"), Do("upd"), Do("Unlock"), Do("write"),
      Jmp({6, 7}), Do("wait")>>

Code ==
    [ChatMulti |->
        <<Call("ensureStarted"), Jmp({3, 17}), Call("touchActivity"),
          Do("upd"), Call("requestForChannel"), Jmp({7, 14}),
          \* the teardown: m.stdin.Close() and m.cmd.Process.Kill(), then
          \* the fields reset, all of it under the mutex
          Do("Lock"), Do("syscall"), Do("upd"), Do("Unlock"),
          Call("ensureStarted"), Jmp({13, 14}), Call("requestForChannel"),
          Jmp({15, 17}), Call("touchActivity"), Do("upd")>>,
     ensureStarted |->
        <<Do("Lock"), Do("upd"), Do("Unlock"), Jmp({5, 6}), Call("start")>>,
     start |->
        <<Do("spawn"), Jmp({3, 15}),
          Do("Lock"), Do("upd"), Do("Unlock"),
          Go("readLoop"), Go("wait"),
          Call("request"), Call("notify"),
          Do("Lock"), Do("upd"), Do("Unlock"),
          Do("callback"), Call("touchActivity")>>,
     request |-> request,
     \* requestForChannel: as request, with the owner recorded as well.
     requestForChannel |->
        <<Do("Lock"), Do("upd"), Do("Unlock"), Do("write"),
          Jmp({6, 7}), Do("wait")>>,
     notify |-> <<Do("write")>>,
     \* touchActivity: nothing without an idle threshold; else the time is
     \* noted and the timer replaced under the mutex.
     touchActivity |->
        <<Jmp({2, 6}), Do("Lock"), Do("upd"), Go("AfterFunc"),
          Do("Unlock")>>,
     \* The function of the idle timer.
     AfterFunc |->
        <<Do("Lock"), Jmp({3, 5}), Do("Unlock"), Jmp({9}),
          Do("upd"), Do("Unlock"), Jmp({8, 9}), Call("Close")>>,
     Close |->
        <<Do("Lock"), Do("upd"), Do("Unlock"), Jmp({5, 9}),
          Call("request"), Call("notify"), Do("sleep"), Do("syscall"),
          Jmp({10, 12}), Do("procwait"), Do("syscall")>>,
     readLoop |->
        <<Do("read"), Jmp({1, 3, 5, 7}),
          Call("handleNotify"), Jmp({1}),
          Call("deliver"), Jmp({1})>>,
     handleNotify |->
        <<Jmp({2, 5, 22}), Do("Lock"), Do("upd"), Do("Unlock"),
          Jmp({6, 22}), Call("touchActivity"),
          Jmp({8, 13, 15, 17, 18, 22}),
          \* agent_reasoning_delta
          Do("Lock"), Do("upd"), Do("Unlock"), Do("callback"), Jmp({22}),
          \* agent_reasoning
          Do("callback"), Jmp({22}),
          \* agent_message_delta
          Do("callback"), Jmp({22}),
          \* agent_message, which falls through to task_complete
          Do("callback"),
          Do("Lock"), Do("upd"), Do("Unlock"), Do("callback")>>,
     deliver |->
        <<Do("Lock"), Do("upd"), Do("Unlock"), Jmp({5, 6}), Do("send")>>,
     \* The task start leaves behind to wait for the process.
     wait |->
        <<Do("procwait"), Do("Lock"), Do("upd"), Do("Unlock"),
          Do("callback")>>]

\* The minimal bridge (mcp_bridge.go), its functions under the names
\* min.<function>.  ensureStarted takes the mutex and releases it when it
\* returns (defer), so startLocked and what it calls run with the mutex
\* held; request, notify and deliver are as in the canonical bridge.
CodeMin ==
    ("min.Chat" :>
        <<Call("min.ensureStarted"), Jmp({3, 15}), Do("upd"),
          Call("min.request"), Jmp({6, 14}),
          Do("Lock"), Do("syscall"), Do("upd"), Do("Unlock"),
          Call("min.ensureStarted"), Jmp({12, 13}), Call("min.request"),
          Jmp({14, 15}), Do("upd")>>)
    @@ ("min.ensureStarted" :>
        <<Do("Lock"), Do("upd"), Jmp({4, 5}), Call("min.startLocked"),
          Do("Unlock")>>)
    @@ ("min.startLocked" :>
        <<Do("spawn"), Jmp({3, 10}), Do("upd"),
          Go("min.readLoop"), Go("min.wait"),
          Call("min.request"), Jmp({8, 10}), Call("min.notify"),
          Do("upd")>>)
    @@ ("min.request" :>
        <<Do("Lock"), Do("upd"), Do("Unlock"), Do("write"),
          Jmp({6, 7}), Do("wait")>>)
    @@ ("min.notify" :> <<Do("write")>>)
    @@ ("min.readLoop" :>
        <<Do("read"), Jmp({1, 3, 5}), Call("min.deliver"), Jmp({1})>>)
    @@ ("min.deliver" :>
        <<Do("Lock"), Do("upd"), Do("Unlock"), Jmp({5, 6}), Do("send")>>)
    @@ ("min.wait" :>
        <<Do("procwait"), Do("Lock"), Do("upd"), Do("Unlock")>>)

\* The operations that can take long: a write to the input stream, a wait
\* for a response, a spawn, a wait for the process, a callback, a sleep, a
\* read of the output stream, a send on a channel.
Waits ==
    {"write", "wait", "spawn", "procwait", "callback", "sleep", "read",
     "send"}

Frame(f) == [f |-> f, i |-> 1]

\* The operation task x is at; "ret" past the end of a function, "none"
\* for a task that is not running.
cur(x) ==
    IF pc[x] = <<>> THEN Do("none")
    ELSE IF Head(pc[x]).i > Len((Code @@ CodeMin)[Head(pc[x]).f])
         THEN Do("ret")
    ELSE (Code @@ CodeMin)[Head(pc[x]).f][Head(pc[x]).i]

\* Task x at position i of its function.
goto(x, i) == [pc EXCEPT ![x] = <<[Head(@) EXCEPT !.i = i]>> \o Tail(@)]

lockRest ==
    <<proc, readLoopAt, waitAt, slot, t, kpc, k, now, crashed, rd, left,
      expect, bm, its, dir, cpc, cl, botVars>>

\* A caller enters ChatMulti.
enter(x) ==
    /\ x \in Callers /\ pc[x] = <<>>
    /\ pc' = [pc EXCEPT ![x] = <<Frame("ChatMulti")>>]
    /\ UNCHANGED <<m, lockRest>>

\* A caller enters Chat of the minimal bridge.
enterChat(x) ==
    /\ x \in Callers /\ pc[x] = <<>>
    /\ pc' = [pc EXCEPT ![x] = <<Frame("min.Chat")>>]
    /\ UNCHANGED <<m, lockRest>>

\* m.mu.Lock(): waits until the mutex is free.
mutexLock(x) ==
    /\ cur(x).op = "Lock" /\ m.mu = ""
    /\ m' = [m EXCEPT !.mu = x]
    /\ pc' = goto(x, Head(pc[x]).i + 1)
    /\ UNCHANGED lockRest

\* m.mu.Unlock().
mutexUnlock(x) ==
    /\ cur(x).op = "Unlock" /\ m.mu = x
    /\ m' = [m EXCEPT !.mu = ""]
    /\ pc' = goto(x, Head(pc[x]).i + 1)
    /\ UNCHANGED lockRest

\* An update of the tables and fields, or a call of the operating system
\* that does not wait: the close of a pipe, a kill.
stepUpd(x) ==
    /\ cur(x).op \in {"upd", "syscall"}
    /\ pc' = goto(x, Head(pc[x]).i + 1)
    /\ UNCHANGED <<m, lockRest>>

\* An operation that can take long is over.
stepWait(x) ==
    /\ cur(x).op \in Waits
    /\ pc' = goto(x, Head(pc[x]).i + 1)
    /\ UNCHANGED <<m, lockRest>>

stepJmp(x) ==
    /\ cur(x).op = "jmp"
    /\ \E i \in cur(x).to : pc' = goto(x, i)
    /\ UNCHANGED <<m, lockRest>>

stepCall(x) ==
    /\ cur(x).op = "call"
    /\ pc' = [pc EXCEPT ![x] =
                <<Frame(cur(x).f)>> \o goto(x, Head(pc[x]).i + 1)[x]]
    /\ UNCHANGED <<m, lockRest>>

stepReturn(x) ==
    /\ cur(x).op = "ret"
    /\ pc' = [pc EXCEPT ![x] = Tail(@)]
    /\ UNCHANGED <<m, lockRest>>

\* go f(), or time.AfterFunc: the task begins, here unless one of its kind
\* is running still.
stepGo(x) ==
    /\ cur(x).op = "go"
    /\ pc' = [goto(x, Head(pc[x]).i + 1) EXCEPT
                ![cur(x).f] = IF @ = <<>> THEN <<Frame(cur(x).f)>> ELSE @]
    /\ UNCHANGED <<m, lockRest>>

----------------------------------------------------------------------------
(* The specifications. *)

\* The responses of an agent that answers the requests it was sent, in any
\* order: a result with or without a continuation token, or an error, for a
\* request that waits for one.
Replies == {Line("resp", NumId(i, FALSE), b, "", FALSE, "", <<>>) :
              i \in m.pending, b \in Bodies}

\* A chat turn up to its wait for the response, and its return.
Turn ==
    \/ \E c \in Callers, o \in Owners : ChatMultiBegin(c, o)
    \/ \E c \in Callers : ensureStarted(c)
    \/ \E c \in Callers : startSpawn(c)
    \/ \E c \in Callers : startInitialize(c)
    \/ \E c \in Callers : startReady(c)
    \/ \E c \in Callers : chooseTool(c)
    \/ \E c \in Callers : requestForChannel(c)
    \/ \E c \in Callers : ChatMultiReturn(c)

\* A wait that ends without a response, and the forced teardown.
Failure ==
    \/ \E c \in Callers : requestCancelled(c)
    \/ \E c \in Callers : requestTimeout(c)
    \/ \E c \in Callers : teardown(c)

\* The children and their exit watchers.
Child ==
    \/ \E p \in Procs : procExit(p)
    \/ \E p \in Procs : exitWatcher(p)

Calls == Turn \/ Failure \/ Child

\* One caller, chat turns one after the other, Reset at any time, the
\* agent's responses in any order; no idle threshold (idle_seconds = 0).
Init == InitWith(0, {"c1"}, MaxRead, MaxTurns)

Next ==
    \/ Calls
    \/ \E c \in Callers : requestReceive(c)
    \/ \E o \in Owners : Reset(o)
    \/ \E r \in Procs, l \in Replies : readLoopLine(r, l)

Spec == Init /\ [][Next]_vars

\* One caller and one turn, with every kind of output line.
InitRead == InitWith(0, {"c1"}, MaxRead, 1)

NextRead ==
    \/ Calls
    \/ \E c \in Callers : requestReceive(c)
    \/ \E r \in Procs, l \in Lines : readLoopLine(r, l)

SpecRead == InitRead /\ [][NextRead]_vars

\* Two callers whose turns overlap, and an agent that never answers.
InitRace == InitWith(0, Callers, 0, MaxTurns)

SpecRace == InitRace /\ [][Calls]_vars

\* The idle supervisor: an idle threshold, the clock, and one caller with one
\* turn, which waits for its response as long as it takes.  An event is an
\* activity, as a turn is.
InitIdle == InitWith(IdleT, {"c1"}, 1, 1)

Activity ==
    {Line("notif", NumId(2, FALSE), NoVal, "codex/event", TRUE, "token_count",
          <<>>)}

\* Notifications the router does nothing with: one of another method, and
\* a codex/event without a msg member.
Ignored ==
    {Line("notif", NumId(2, FALSE), NoVal, "other", TRUE, "agent_message",
          <<"H">>),
     Line("notif", NumId(2, FALSE), NoVal, "codex/event", FALSE, "", <<>>)}

Handler(h) ==
    \/ idleRead(h)
    \/ idleCheck(h)
    \/ closeSnapshot(h)
    \/ closeRequest(h)
    \/ closeExit(h)
    \/ closeStdin(h)
    \/ closeWaitExit(h)

NextIdle ==
    \/ Turn
    \/ Child
    \/ \E c \in Callers : requestReceive(c)
    \/ \E r \in Procs, l \in Replies \cup Activity \cup Ignored :
          readLoopLine(r, l)
    \/ Tick
    \/ \E h \in Handlers : timerFire(h)
    \/ \E h \in Handlers : Handler(h)

\* The runtime starts the function of an expired timer, and the goroutine it
\* runs in gets to its steps.
Fairness ==
    /\ WF_vars(\E h \in Handlers : timerFire(h))
    /\ \A h \in Handlers : WF_vars(Handler(h))

SpecIdle == InitIdle /\ [][NextIdle]_vars /\ Fairness

\* One caller and one turn, an agent that streams events of the requests it
\* was sent and never answers, and the reader seen at the grain of its loop:
\* the Scan and the body are steps of their own.
InitStream == InitWith(0, {"c1"}, MaxStream, 1)

NextStream ==
    \/ Calls
    \/ \E r \in Procs, l \in Streaming : readLoopScan(r, l)
    \/ \E r \in Procs, q \in Procs, l \in Streaming : readLoopScanBoth(r, q, l)
    \/ \E r \in Procs : readLoopBody(r)

SpecStream == InitStream /\ [][NextStream]_vars

\* The tail transport: two callers whose calls of Chat may overlap, agents
\* that create their session file or write to it, and messages the tailing
\* tasks extract.  One session file exists from the start, and no time
\* passes between the snapshots and the scans.
InitTail ==
    /\ InitBridge(0, {}, MaxMsg, MaxTurns)
    /\ InitTailWith(Callers, [p \in {"f1"} |-> 0])

NextTail ==
    \/ \E c \in Callers, o \in Owners : ChatBegin(c, o)
    \/ \E c \in Callers : ensure(c)
    \/ \E c \in Callers : ensureSpawn(c)
    \/ \E c \in Callers : ensureFound(c)
    \/ \E c \in Callers : ensureNotFound(c)
    \/ \E c \in Callers : ChatWrite(c)
    \/ \E c \in Callers : idleTimerFire(c)
    \/ \E c \in Callers : ChatMessage(c)
    \/ \E c \in Callers : ChatIdle(c)
    \/ \E c \in Callers : ChatDeadline(c)
    \/ \E c \in Callers : ChatCancelled(c)
    \/ \E c \in Callers : ChatReturn(c)
    \/ \E n \in Tails, msg \in Msgs : tailJSONL(n, msg)
    \/ \E n \in Tails : agentExit(n)
    \/ \E p \in Jsonl : fileWritten(p)

SpecTail == InitTail /\ [][NextTail]_vars

\* The discovery of the session file: one caller's ensure, while time passes
\* and files below the sessions root are created and written to.
InitFind ==
    /\ InitBridge(0, {}, 0, 1)
    /\ InitTailWith({"c1"}, [p \in {"f1"} |-> 0])

NextFind ==
    \/ \E c \in Callers, o \in Owners : ChatBegin(c, o)
    \/ \E c \in Callers : ensure(c)
    \/ \E c \in Callers : ensureSpawn(c)
    \/ \E c \in Callers : ensureFound(c)
    \/ \E c \in Callers : ensureNotFound(c)
    \/ \E p \in Paths : fileWritten(p)
    \/ Tick

SpecFind == InitFind /\ [][NextFind]_vars

\* The tail transport with one caller and one call of Chat, and an agent
\* that goes on writing messages to its session file, during the call and
\* after it.
InitBurst ==
    /\ InitBridge(0, {}, MaxBurst, 1)
    /\ InitTailWith({"c1"}, [p \in {"f1"} |-> 0])

NextBurst ==
    \/ \E c \in Callers, o \in Owners : ChatBegin(c, o)
    \/ \E c \in Callers : ensure(c)
    \/ \E c \in Callers : ensureSpawn(c)
    \/ \E c \in Callers : ensureFound(c)
    \/ \E c \in Callers : ensureNotFound(c)
    \/ \E c \in Callers : ChatWrite(c)
    \/ \E c \in Callers : idleTimerFire(c)
    \/ \E c \in Callers : ChatMessage(c)
    \/ \E c \in Callers : ChatIdle(c)
    \/ \E c \in Callers : ChatDeadline(c)
    \/ \E c \in Callers : ChatCancelled(c)
    \/ \E c \in Callers : ChatReturn(c)
    \/ \E n \in Tails : tailJSONL(n, "m1")
    \/ \E n \in Tails : agentExit(n)
    \/ \E p \in Jsonl : fileWritten(p)

SpecBurst == InitBurst /\ [][NextBurst]_vars

\* The tasks of one MCP bridge and where each of them takes and releases the
\* instance mutex: one caller in ChatMulti, the reader and the task that
\* waits for the process, both begun by start, and the function of the idle
\* timer, begun by touchActivity.
InitLock ==
    /\ m = NewMCPBridge(IdleT)
    /\ pc = [x \in LockTasks |-> <<>>]
    /\ proc = [p \in Procs |-> NoChild]
    /\ readLoopAt = [p \in Procs |-> [at |-> "none", sc |-> NoProc]]
    /\ waitAt = [p \in Procs |-> "none"]
    /\ slot = [i \in Ids |-> NoVal]
    /\ t = [c \in Callers |-> NoTurn]
    /\ kpc = [h \in Handlers |-> "idle"]
    /\ k = [h \in Handlers |-> NoClose]
    /\ now = 0
    /\ crashed = FALSE
    /\ rd = NoRead
    /\ left = [lines |-> 0, turns |-> 0]
    /\ expect = [o \in Owners |-> ""]
    /\ InitTailWith({}, <<>>)

NextLock ==
    \/ \E x \in LockTasks : enter(x)
    \/ \E x \in LockTasks : mutexLock(x)
    \/ \E x \in LockTasks : mutexUnlock(x)
    \/ \E x \in LockTasks : stepUpd(x)
    \/ \E x \in LockTasks : stepWait(x)
    \/ \E x \in LockTasks : stepJmp(x)
    \/ \E x \in LockTasks : stepCall(x)
    \/ \E x \in LockTasks : stepReturn(x)
    \/ \E x \in LockTasks : stepGo(x)

SpecLock == InitLock /\ [][NextLock]_vars

\* The tasks of one minimal bridge: two callers in Chat, the reader and the
\* task that waits for the process, both begun by startLocked.
MinTasks == {"c1", "c2", "min.readLoop", "min.wait"}

InitMin ==
    /\ m = NewMCPBridge(0)
    /\ pc = [x \in MinTasks |-> <<>>]
    /\ proc = [p \in Procs |-> NoChild]
    /\ readLoopAt = [p \in Procs |-> [at |-> "none", sc |-> NoProc]]
    /\ waitAt = [p \in Procs |-> "none"]
    /\ slot = [i \in Ids |-> NoVal]
    /\ t = [c \in Callers |-> NoTurn]
    /\ kpc = [h \in Handlers |-> "idle"]
    /\ k = [h \in Handlers |-> NoClose]
    /\ now = 0
    /\ crashed = FALSE
    /\ rd = NoRead
    /\ left = [lines |-> 0, turns |-> 0]
    /\ expect = [o \in Owners |-> ""]
    /\ InitTailWith({}, <<>>)

NextMin ==
    \/ \E x \in MinTasks : enterChat(x)
    \/ \E x \in MinTasks : mutexLock(x)
    \/ \E x \in MinTasks : mutexUnlock(x)
    \/ \E x \in MinTasks : stepUpd(x)
    \/ \E x \in MinTasks : stepWait(x)
    \/ \E x \in MinTasks : stepJmp(x)
    \/ \E x \in MinTasks : stepCall(x)
    \/ \E x \in MinTasks : stepReturn(x)
    \/ \E x \in MinTasks : stepGo(x)

SpecMin == InitMin /\ [][NextMin]_vars

\* The tailing task at the grain of its reads: one session whose process
\* appends records to its file piece by piece, before and after the task
\* has opened the file.
InitLines ==
    /\ InitBridge(0, {}, 0, 1)
    /\ InitTailWith({"c1"}, [p \in {"f1"} |-> 0])

NextLines ==
    \/ \E c \in Callers, o \in Owners : ChatBegin(c, o)
    \/ \E c \in Callers : ensure(c)
    \/ \E c \in Callers : ensureSpawn(c)
    \/ \E c \in Callers : ensureFound(c)
    \/ \E c \in Callers : ensureNotFound(c)
    \/ \E p \in Jsonl : fileWritten(p)
    \/ \E n \in Tails, msg \in Msgs : agentAppend(n, msg)
    \/ \E n \in Tails : tailReadString(n)

SpecLines == InitLines /\ [][NextLines]_vars

\* One caller and one turn on a bridge made with or without the streaming
\* callbacks (WithStreamHandler), and an agent that streams the messages of
\* the requests it was sent and answers with any payload.
InitReply ==
    /\ \E s \in BOOLEAN : m = [NewMCPBridge(0) EXCEPT !.onAgentDone = s]
    /\ proc = [p \in Procs |-> NoChild]
    /\ readLoopAt = [p \in Procs |-> [at |-> "none", sc |-> NoProc]]
    /\ waitAt = [p \in Procs |-> "none"]
    /\ slot = [i \in Ids |-> NoVal]
    /\ pc = [c \in Callers |-> IF c = "c1" THEN "idle" ELSE "off"]
    /\ t = [c \in Callers |-> NoTurn]
    /\ kpc = [h \in Handlers |-> "idle"]
    /\ k = [h \in Handlers |-> NoClose]
    /\ now = 0
    /\ crashed = FALSE
    /\ rd = NoRead
    /\ left = [lines |-> MaxRead, turns |-> 1, said |-> [i \in Ids |-> <<>>]]
    /\ expect = [o \in Owners |-> ""]
    /\ InitTailWith({}, <<>>)

NextReply ==
    \/ Calls
    \/ \E c \in Callers : requestReceive(c)
    \/ \E r \in Procs, l \in Streaming : readLoopLine(r, l)
    \/ \E r \in Procs, i \in m.pending, b \in Answers :
          readLoopLine(r, Line("resp", NumId(i, FALSE), b, "", FALSE, "",
                               <<>>))

SpecReply == InitReply /\ [][NextReply]_vars

-----------------------------------------------------------------------------
(* The Discord bot: onMessageCreate, the typing tickers, and the stream    *)
(* callbacks that main wires to the bridge.  The Bot struct has no lock:   *)
(* the handler of each message event and the readLoop that invokes the     *)
(* callbacks are goroutines that use b.typing and b.streams unguarded.     *)

\* Everything but the bot.
botRest ==
    <<m, proc, readLoopAt, waitAt, slot, pc, t, kpc, k, now, crashed, rd,
      left, expect, bm, its, dir, cpc, cl>>

\* The bot's maps and the ticker goroutines after a call.
Typing(bb, tk) == [bot |-> bb, tickers |-> tk]

\* The key of b.streams: fmt.Sprintf("%s#%d", channelID, requestID).
streamKey(ch, req) == <<ch, req>>

\* startTyping after its lookup has found no entry: the cancel function of
\* a new ticker goroutine is stored for the channel, over whatever is there,
\* and the goroutine is started.  by: what called startTyping.
startTypingGo(bb, tk, ch, by) ==
    Typing([bb EXCEPT !.typing[ch] = Len(tk) + 1],
           Append(tk, [ch |-> ch, by |-> by, on |-> TRUE]))

\* startTyping: nothing if the channel has an entry.
startTyping(bb, tk, ch, by) ==
    IF bb.typing[ch] # 0 THEN Typing(bb, tk)
    ELSE startTypingGo(bb, tk, ch, by)

\* stopTyping: the ticker of the channel's entry is cancelled and the entry
\* deleted; nothing if there is no entry.
stopTyping(bb, tk, ch) ==
    IF bb.typing[ch] = 0 THEN Typing(bb, tk)
    ELSE Typing([bb EXCEPT !.typing[ch] = 0],
                [tk EXCEPT ![bb.typing[ch]].on = FALSE])

\* ApplyStreamDelta: typing is ensured; the first delta of a key posts a
\* message and, if that was sent, makes the streamState.
ApplyStreamDelta(bb, tk, ch, req, sent) ==
    LET s == startTyping(bb, tk, ch, "delta") IN
    IF streamKey(ch, req) \in bb.streams \/ ~sent THEN s
    ELSE Typing([s.bot EXCEPT !.streams = @ \cup {streamKey(ch, req)}],
                s.tickers)

\* EndStream: without a streamState for the key the final text is posted and
\* that is all; with one, the message is edited, the state deleted and the
\* typing stopped.
EndStream(bb, tk, ch, req) ==
    IF streamKey(ch, req) \notin bb.streams THEN Typing(bb, tk)
    ELSE stopTyping([bb EXCEPT !.streams = @ \ {streamKey(ch, req)}], tk, ch)

\* ResetChannelStreams: the channel's stream states are deleted and its
\* typing stopped.
ResetChannelStreams(bb, tk, ch) ==
    stopTyping([bb EXCEPT !.streams = {key \in @ : key[1] # ch}], tk, ch)

\* The closures main passes to WithStreamHandler and WithReasoningHandler,
\* invoked in order; the reasoning ones set the presence only.
RECURSIVE invoke(_, _, _, _)
invoke(bb, tk, cbs, sent) ==
    IF cbs = <<>> THEN Typing(bb, tk)
    ELSE LET c == Head(cbs)
             s == CASE c.cb = "onAgentDelta" ->
                         ApplyStreamDelta(bb, tk, c.owner, c.req, sent)
                    [] c.cb = "onAgentDone" ->
                         EndStream(bb, tk, c.owner, c.req)
                    [] OTHER -> Typing(bb, tk)
         IN  invoke(s.bot, s.tickers, Tail(cbs), sent)

\* The turn of request i, if a handler has begun one.
TurnOf(i) == {e \in Events : mc[e].id = i}

\* The bridge as main wires it, with both stream callbacks, and with the
\* owners ChatMulti has registered: the channel of every turn begun, which
\* is never unregistered.
Wired ==
    [NewMCPBridge(0) EXCEPT
       !.owners = [i \in Ids |->
                     IF TurnOf(i) = {} THEN ""
                     ELSE mc[CHOOSE e \in TurnOf(i) : TRUE].ch]]

\* The streaming events the child may write for the turns begun.
TurnEvents ==
    {Line("notif", NumId(i, FALSE), NoVal, "codex/event", TRUE, ty, <<"H">>) :
       i \in {j \in Ids : TurnOf(j) # {}},
       ty \in {"agent_message_delta", "agent_message"}}

\* The handlers that have found no entry in b.typing and have not stored
\* theirs yet.
Setting == {e \in Events : mc[e].at = "set"}

\* onMessageCreate up to the lookup of startTyping.  A message of a bot, one
\* without a mention in an unmapped channel, and an empty prompt are
\* dropped; "/reset" resets the conversation and the channel's streams.
onMessageCreate(e, ch, kind) ==
    /\ mc[e].at = "idle"
    /\ IF kind = "prompt"
       THEN /\ Len(tickers) + Cardinality(Setting) < MaxTick
            /\ mc' = [mc EXCEPT ![e].ch = ch,
                                ![e].at = IF bot.typing[ch] # 0 THEN "chat"
                                          ELSE "set"]
            /\ UNCHANGED <<bot, tickers>>
       ELSE IF kind = "reset"
       THEN /\ bot' = ResetChannelStreams(bot, tickers, ch).bot
            /\ tickers' = ResetChannelStreams(bot, tickers, ch).tickers
            /\ mc' = [mc EXCEPT ![e].at = "done"]
       ELSE /\ mc' = [mc EXCEPT ![e].at = "done"]
            /\ UNCHANGED <<bot, tickers>>
    /\ UNCHANGED botRest

\* startTyping of the handler, after its lookup: the entry is stored and
\* the ticker started.
startTypingSet(e) ==
    /\ mc[e].at = "set"
    /\ bot' = startTypingGo(bot, tickers, mc[e].ch, "accept").bot
    /\ tickers' = startTypingGo(bot, tickers, mc[e].ch, "accept").tickers
    /\ mc' = [mc EXCEPT ![e].at = "chat"]
    /\ UNCHANGED botRest

\* The handler calls b.onChat: ChatMulti takes the next request id and
\* registers the channel as its owner.
onChat(e) ==
    /\ mc[e].at = "chat"
    /\ mc' = [mc EXCEPT ![e].at = "wait",
                        ![e].id = 1 + Cardinality({x \in Events :
                                                     mc[x].id # 0})]
    /\ UNCHANGED <<bot, tickers, botRest>>

\* b.onChat returns, with the replies of a result or with an error, which
\* the handler reports and replaces by one reply.  Without replies the
\* handler returns; otherwise it stops the typing and posts them.
onChatReturn(e, res) ==
    /\ mc[e].at = "wait"
    /\ LET rs == IF res.has = "error" THEN <<res>> ELSE replies(Wired, res)
       IN  IF Len(rs) = 0
           THEN /\ mc' = [mc EXCEPT ![e].at = "done"]
                /\ UNCHANGED <<bot, tickers>>
           ELSE /\ bot' = stopTyping(bot, tickers, mc[e].ch).bot
                /\ tickers' = stopTyping(bot, tickers, mc[e].ch).tickers
                /\ mc' = [mc EXCEPT ![e].at = "done", ![e].told = TRUE]
    /\ UNCHANGED botRest

\* readLoop reads a streaming event of a turn that has begun and invokes
\* the callbacks handleNotify chooses for it.
readLoopEvent(l, sent) ==
    /\ l \in TurnEvents
    /\ LET cbs == dispatch(Wired, l, ownerOf(Wired, l.id)).cbs
           s == invoke(bot, tickers, cbs, sent)
       IN  /\ Len(s.tickers) + Cardinality(Setting) <= MaxTick
           /\ bot' = s.bot
           /\ tickers' = s.tickers
           /\ mc' = [e \in Events |->
                       IF e \in TurnOf(DecodeId(l.id).n)
                            /\ \E n \in 1..Len(cbs) :
                                  cbs[n].cb = "onAgentDone"
                       THEN [mc[e] EXCEPT !.ended = TRUE]
                       ELSE mc[e]]
    /\ UNCHANGED botRest

\* The bot alone, with the bridge as the source of results and callbacks.
InitTyping == InitWith(0, {}, 0, 0)

NextTyping ==
    \/ \E e \in Events, ch \in Owners, kind \in {"prompt", "reset", "drop"} :
          onMessageCreate(e, ch, kind)
    \/ \E e \in Events : startTypingSet(e)
    \/ \E e \in Events : onChat(e)
    \/ \E e \in Events, res \in Answers : onChatReturn(e, res)
    \/ \E l \in TurnEvents, sent \in BOOLEAN : readLoopEvent(l, sent)

\* A handler that is running goes on, and ChatMulti returns at the latest
\* when the handler's context of 60 seconds is done.  Nothing obliges users
\* to send messages or the child to write events.
SpecTyping ==
    /\ InitTyping
    /\ [][NextTyping]_vars
    /\ WF_vars(\E e \in Events : startTypingSet(e) \/ onChat(e))
    /\ WF_vars(\E e \in Events, res \in Answers : onChatReturn(e, res))

----------------------------------------------------------------------------
(* The claims. *)

\* The wire id w is the request id i, as a number or as a decimal string.
SameId(w, i) ==
    \/ w = NumId(i, FALSE)
    \/ w.ty = "str" /\ Len(w.s) > 0 /\ parseID(w.s).ok /\ parseID(w.s).n = i

\* C1: a response line is delivered only to a waiter that was pending, and
\* only to the waiter whose request carries the id of the line.
C1_DeliveredById ==
    rd.to # 0 => rd.to \in rd.pending /\ SameId(rd.line.id, rd.to)

\* The requests whose caller still waits for the response.
InFlight ==
    {t[c].id : c \in {d \in Callers : pc[d] \in {"handshake", "wait"}}}
    \cup {k[h].id : h \in {g \in Handlers : kpc[g] = "exit"}}

\* C2: the pending table holds entries of requests in flight only, so it is
\* empty whenever no request is in flight.
C2_PendingInFlight == m.pending \subseteq InFlight

\* C3: the turn after a start call that returned a token uses the reply tool
\* with that token, and the turn after Reset uses the start tool.
C3_Continuity ==
    \A c \in Callers :
        pc[c] \in {"send", "wait"} /\ t[c].want # "" =>
            IF t[c].want = "codex" THEN t[c].tool = "codex"
            ELSE t[c].tool = "codex-reply" /\ t[c].token = t[c].want

\* C4, as the claim states it: a turn whose first write failed has sent its
\* request exactly twice when it returns.
C4_AlwaysRetried ==
    \A c \in Callers : pc[c] = "done" /\ t[c].err1 = "write" => t[c].sends = 2

\* What a turn that returns after a failed first attempt has done: the one
\* call of ensureStarted either made the retry possible, and then the request
\* was sent once more and the outcome of that attempt is returned, or it
\* failed, and then the first error is returned without a retry.
RetriedOnce(c) ==
    \/ /\ t[c].ensure2 \in {"started", "already"}
       /\ t[c].starts = (IF t[c].ensure2 = "started" THEN 1 ELSE 0)
       /\ t[c].sends = 2
       /\ t[c].ret # ""
    \/ /\ t[c].ensure2 = "failed"
       /\ t[c].starts = 0
       /\ t[c].sends = 1
       /\ t[c].ret = t[c].err1

\* The forced teardown as a step: input closed, child killed, liveness flag
\* cleared, pending table emptied.
TornDown(c) ==
    /\ m'.stdin = NoProc /\ ~m'.ready /\ m'.pending = {}
    /\ m.stdin # NoProc => ~proc'[m.stdin].stdinOpen
    /\ m.cmd # NoProc => proc'[m.cmd].st = "exited"

\* C4, amended: after a failed first attempt the session is torn down once,
\* ensureStarted is called once, the request is sent once more only if that
\* call succeeded, and no turn restarts more than once or sends more than
\* twice.
C4_RestartAndRetry ==
    /\ [](\A c \in Callers :
            /\ t[c].starts <= 1 /\ t[c].sends <= 2
            /\ pc[c] = "teardown" => t[c].sends = 1 /\ t[c].attempt = 1
            /\ pc[c] = "done" /\ t[c].err1 # "" => RetriedOnce(c))
    /\ [][\A c \in Callers : teardown(c) => TornDown(c)]_vars

\* C4: a turn returns the error of its second attempt, after a failed write,
\* a teardown and a restart.
C4_Witness ==
    \E c \in Callers :
        /\ pc[c] = "done" /\ t[c].err1 = "write"
        /\ t[c].ensure2 = "started" /\ t[c].sends = 2
        /\ t[c].ret \in {"write", "timeout", "ctx"}

\* The callers inside start, between the spawn and the liveness flag.
InStart == {c \in Callers : pc[c] \in {"initialize", "handshake"}}

\* C5: two calls of ensureStarted never both spawn: at most one caller is
\* inside start with a child of its own.
C5_SingleFlight == Cardinality(InStart) <= 1

\* C6: at most one child runs at any moment.
C6_OneChild == Cardinality(Running) <= 1

\* C7: the steps of a turn whose wait ended on the caller's context leave the
\* children, the input stream and the liveness flag as they are, and keep
\* the pending entries.
C7_CancelKeepsProcess ==
    [][\A c \in Callers :
         t[c].err1 = "ctx" /\ pc'[c] # pc[c] =>
             /\ proc' = proc
             /\ m'.stdin = m.stdin /\ m'.ready = m.ready
             /\ m.pending \subseteq m'.pending]_vars

\* The timer is armed and its deadline has passed.
Expired == m.idleTimer.armed /\ now >= m.idleTimer.at

\* A newer activity has opened a window that has not run out.
Fresh == m.idleTimer.armed /\ now < m.idleTimer.at

\* The handler of the idle timer is about to run Close.
Closing == \E h \in Handlers : kpc[h] = "close"

\* C8: the deadline of the armed timer is the latest activity plus the
\* threshold, and once it has passed Close is eventually invoked, unless a
\* newer activity opens a fresh window first.
C8_IdleClose ==
    /\ [](m.idleTimer.armed =>
            m.idleTimer.at = m.lastActive + m.idleSeconds)
    /\ (Expired ~> (Closing \/ Fresh))

\* C8: the handler invokes Close for a running child, a threshold after the
\* activity it has read.
C8_Witness ==
    \E h \in Handlers :
        /\ kpc[h] = "close" /\ now - k[h].last >= m.idleSeconds
        /\ Running # {}

\* C9: the handler invokes Close only when, at the moment it decides, the
\* threshold has elapsed since the last recorded activity; without a
\* threshold no timer is armed and no handler runs.
C9_CloseOnlyIfIdle ==
    /\ \A h \in Handlers : kpc[h] = "close" => k[h].since >= m.idleSeconds
    /\ m.idleSeconds <= 0 =>
           ~m.idleTimer.armed /\ \A h \in Handlers : kpc[h] = "idle"

\* An event that reaches a callback when its owner is known.
Routable(l) ==
    /\ l.kind = "notif" /\ l.method = "codex/event" /\ l.msg
    /\ \/ l.typ \in {"agent_message", "task_complete"}
       \/ /\ l.typ \in {"agent_reasoning_delta", "agent_reasoning",
                        "agent_message_delta"}
          /\ l.text # <<>>

Streamed(l) ==
    /\ l.kind = "notif" /\ l.method = "codex/event" /\ l.msg
    /\ l.typ \in {"agent_message_delta", "agent_message"} /\ l.text # <<>>

\* The streaming callbacks among the callbacks of a line.
StreamCbs(cbs) ==
    SelectSeq(cbs, LAMBDA c : c.cb \in {"onAgentDelta", "onAgentDone"})

\* The callback a streaming event of owner o is to produce.
CbOf(l, o) ==
    Cb(IF l.typ = "agent_message_delta" THEN "onAgentDelta" ELSE "onAgentDone",
       o, DecodeId(l.id).n, l.text)

\* C11: a streaming event of a request with an owner invokes its one
\* callback (delta or final, with the owner, the request and the text), and
\* it does so in output order: when the callback of a line is invoked, no
\* line of the same request that was read from the same output no later
\* than it is still waiting to be handled.
C11_CallbackOrder ==
    Streamed(rd.line) /\ rd.owner # "" =>
        /\ StreamCbs(rd.cbs) = <<CbOf(rd.line, rd.owner)>>
        /\ \A r \in Procs \ {rd.by} :
              readLoopAt[r].at = "body" /\ readLoopAt[r].sc = rd.from
                /\ Streamed(readLoopAt[r].line) /\ readLoopAt[r].n <= rd.n =>
                  readLoopAt[r].line.id # rd.line.id

\* The ids of the requests that callers and Close hold at the moment.
HeldIds ==
    {t[c].id : c \in Callers} \cup {k[h].id : h \in Handlers}

\* C12: a request id is never reused: the counter never goes back, whoever
\* is given an id (handshake, chat call, shutdown) is given the counter's new
\* value, one above every id given out before, and no id in use is beyond
\* the counter; two callers that wait at once hold different ids.
C12_FreshIds ==
    /\ [](/\ \A i \in HeldIds \cup m.pending : i <= m.reqID
          /\ \A c, d \in Callers :
                c # d /\ pc[c] \in {"handshake", "wait"}
                  /\ pc[d] \in {"handshake", "wait"} => t[c].id # t[d].id)
    /\ [][/\ m'.reqID >= m.reqID
          /\ \A c \in Callers :
                t'[c].id \notin {0, t[c].id} =>
                    t'[c].id = m'.reqID /\ m'.reqID = m.reqID + 1
          /\ \A h \in Handlers :
                k'[h].id \notin {0, k[h].id} =>
                    k'[h].id = m'.reqID /\ m'.reqID = m.reqID + 1]_vars

\* C12: two callers wait at once for the responses of requests they issued
\* after a restart.
C12_Witness ==
    /\ nspawn = 2
    /\ \A c \in Callers : pc[c] = "wait" /\ t[c].id > 2

\* A Session exists, is marked live, and its death signal has not fired.
Live == m.ready /\ m.deadCh # NoProc /\ ~proc[m.deadCh].deadClosed

\* C13: a call of ensureStarted that finds the Session live returns success
\* at once: it goes on to what follows the call, spawns nothing, starts no
\* reader or watcher, issues no request, and leaves the bridge, the children
\* and the response channels as they are.
C13_EnsureIdempotent ==
    [][\A c \in Callers :
         pc[c] = "ensureStarted" /\ pc'[c] # pc[c] /\ Live =>
             /\ pc'[c] = AfterEnsure(c)
             /\ m' = m /\ proc' = proc /\ slot' = slot
             /\ readLoopAt' = readLoopAt /\ waitAt' = waitAt]_vars

\* C13: the call before a retry has found the Session live, restarted by
\* the other caller, and the retry goes on without a spawn of its own.
C13_Witness ==
    \E c \in Callers :
        /\ pc[c] = "send" /\ t[c].attempt = 2
        /\ t[c].ensure2 = "already" /\ t[c].starts = 0

\* C14: start issues the initialize request whatever its write returns, and
\* however the wait for the response ends (response, timeout, failed
\* request) start then marks the Session ready, arms the idle timer for a
\* threshold after now when one is configured, and returns success to
\* ensureStarted's caller.
C14_HandshakeTolerant ==
    [][\A c \in Callers :
         /\ pc[c] = "initialize" /\ pc'[c] # pc[c] =>
               /\ pc'[c] = "handshake" /\ m'.reqID = m.reqID + 1
               /\ m'.reqID \in m'.pending
         /\ pc[c] = "handshake" /\ pc'[c] # pc[c] =>
               /\ pc'[c] = AfterEnsure(c) /\ t'[c].ret = "" /\ ~crashed'
               /\ m'.ready
               /\ IF m.idleSeconds > 0
                  THEN /\ m'.lastActive = now
                       /\ m'.idleTimer = [armed |-> TRUE,
                                          at |-> now + m.idleSeconds]
                  ELSE m'.idleTimer = m.idleTimer]_vars

\* C14: start has returned success and armed the idle timer although the
\* initialize request never got its response.
C14_Witness ==
    \E c \in Callers :
        /\ pc[c] = "decide" /\ t[c].id \in m.pending
        /\ m.ready /\ m.idleTimer.armed

\* C15: the steps of Close come in the order shutdown request, exit
\* notification, close of the input stream, wait for the exit.  The
\* shutdown request is issued first and touches no child; however its wait
\* ends, Close goes on to the exit notification and then closes the input
\* stream it found, and only then waits for the child; that wait kills the
\* child exactly when the child still runs at its end, and a child that has
\* exited by then is left alone.
C15_CloseOrder ==
    /\ [](\A h \in Handlers :
            /\ kpc[h] \in {"exit", "closeStdin"} => k[h].id # 0 /\ ~k[h].kill
            /\ kpc[h] = "waitExit" =>
                  /\ ~k[h].kill
                  /\ k[h].stdin # NoProc =>
                        k[h].id # 0 /\ ~proc[k[h].stdin].stdinOpen)
    /\ [][\A h \in Handlers :
            /\ kpc[h] = "shutdown" /\ kpc'[h] # kpc[h] =>
                  /\ kpc'[h] = "exit" /\ proc' = proc
                  /\ k'[h].id = m'.reqID /\ k'[h].id \in m'.pending
            /\ kpc[h] = "exit" /\ kpc'[h] # kpc[h] =>
                  kpc'[h] = "closeStdin" /\ proc' = proc
            /\ kpc[h] = "closeStdin" /\ kpc'[h] # kpc[h] =>
                  /\ kpc'[h] = (IF k[h].cmd # NoProc THEN "waitExit" ELSE "idle")
                  /\ proc' = CloseStdin(proc, k[h].stdin)
            /\ kpc[h] = "waitExit" /\ kpc'[h] # kpc[h] =>
                  /\ kpc'[h] = "idle"
                  /\ k'[h].kill = (proc[k[h].cmd].st = "running")
                  /\ proc[k[h].cmd].st # "running" => proc' = proc
                  /\ proc'[k[h].cmd].st = "exited"]_vars

\* C15: Close has run to its end for a child that exited during the wait,
\* and has not killed it.
C15_Witness ==
    \E h \in Handlers :
        /\ kpc[h] = "idle" /\ k[h].id # 0 /\ k[h].cmd # NoProc
        /\ ~k[h].kill /\ proc[k[h].cmd].st = "exited"

\* What caller c's discovery works with when it scans: its baseline, its
\* process start, and the files as they are.  A file has advanced when it is
\* absent from the baseline or modified later than the baseline has it, and
\* it is recent when not modified before the start less the grace.
Advanced(c, p) ==
    IF p \in DOMAIN cl[c].before THEN dir[p] > cl[c].before[p] ELSE TRUE

Recent(c, p) == dir[p] >= cl[c].start - Grace

\* The files that have appeared since the process start: absent from the
\* baseline, modified after the start.
Appeared(c) ==
    {p \in DOMAIN dir \ DOMAIN cl[c].before : dir[p] > cl[c].start}

\* C16: the file a discovery returns is a log file that has advanced and is
\* recent (so never one whose modification time is its baseline value, nor
\* one modified before the start less the grace); and when a single new file
\* has appeared after the process start, the discovery returns that file.
C16_Discovery ==
    [][\A c \in Callers :
         cpc[c] = "discover" /\ cpc'[c] = "write" =>
             /\ its'[cl[c].cmd].path \in DOMAIN dir
             /\ Advanced(c, its'[cl[c].cmd].path)
             /\ Recent(c, its'[cl[c].cmd].path)
             /\ Cardinality(Appeared(c) \cap Jsonl) = 1 =>
                   its'[cl[c].cmd].path \in Appeared(c)]_vars

\* C17: a Chat that has written its prompt returns on the idle gap only
\* with a message, and only when the gap has passed without a new message
\* since the latest one; at the hard timeout it returns the latest message,
\* or the tail-timeout error when it has none; or it returns on the caller's
\* cancellation; and in no other way.
C17_ChatReturns ==
    \A c \in Callers :
        cpc[c] = "done" /\ cl[c].ret \notin {"start", "notfound", "write"} =>
            /\ cl[c].by \in {"idle", "deadline", "ctx"}
            /\ cl[c].by = "idle" =>
                  cl[c].last # "" /\ cl[c].quiet /\ cl[c].ret = "ok"
            /\ cl[c].by = "deadline" =>
                  cl[c].ret = (IF cl[c].last = "" THEN "timeout" ELSE "ok")

\* The sessions of owner o whose process runs, and those with a tailing
\* task.
RunningFor(o) == {n \in Tails : its[n].owner = o /\ its[n].st = "running"}
TailingFor(o) == {n \in Tails : its[n].owner = o /\ its[n].tail}

\* C18: for every owner at most one interactive process runs and at most
\* one tailing task was started, and the callers that hold a session of the
\* same owner hold the same one.
C18_OneTailSession ==
    /\ \A o \in Owners :
          Cardinality(RunningFor(o)) <= 1 /\ Cardinality(TailingFor(o)) <= 1
    /\ \A c, d \in Callers :
          cl[c].owner = cl[d].owner /\ cl[c].s # NoProc /\ cl[d].s # NoProc =>
              cl[c].s = cl[d].s

\* C19: a binding is removed by Reset of its owner only, and changed only by
\* that or by a turn that takes its result; every other step (exit of the
\* child, its watcher, teardown, restart, a wait that ends in a timeout or on
\* the context, Close) leaves all bindings as they are; and a turn of a bound
\* owner chooses the reply tool with the stored token, after a restart too.
C19_BindingKept ==
    [][/\ \A o \in Owners :
             m.convo[o] # "" /\ m'.convo[o] = "" => Reset(o)
       /\ m'.convo # m.convo =>
             \/ \E o \in Owners : Reset(o)
             \/ \E c \in Callers : requestReceive(c)
       /\ \A c \in Callers :
             pc[c] = "decide" /\ pc'[c] # pc[c] /\ m.convo[t[c].owner] # "" =>
                 /\ t'[c].tool = "codex-reply"
                 /\ t'[c].token = m.convo[t[c].owner]]_vars

\* C19: after a restart, the first attempt of a bound owner's turn is about
\* to send a reply call with the stored token.
C19_Witness ==
    \E c \in Callers :
        /\ pc[c] = "send" /\ t[c].attempt = 1 /\ m.cmd = 2
        /\ t[c].tool = "codex-reply" /\ t[c].token # ""
        /\ t[c].token = m.convo[t[c].owner]

\* C20: Reset of an owner leaves that owner unbound, whether it was bound or
\* not, does not fail, and changes nothing else: the bindings of the other
\* owners, the other fields of the bridge, the children, the readers and
\* watchers, the response channels and the callers stay as they are; for an
\* unbound owner it changes nothing at all, so a second Reset does not
\* differ from the first.
C20_ResetIdempotent ==
    [][\A o \in Owners :
         Reset(o) =>
             /\ m'.convo[o] = "" /\ ~crashed'
             /\ m' = [m EXCEPT !.convo[o] = ""]
             /\ m.convo[o] = "" => m' = m
             /\ proc' = proc /\ readLoopAt' = readLoopAt /\ waitAt' = waitAt
             /\ slot' = slot /\ pc' = pc /\ t' = t]_vars

\* C20: an owner has been reset and is unbound while the other owner is
\* still bound.
C20_Witness ==
    \E o, q \in Owners :
        /\ o # q /\ expect[o] = "codex" /\ m.convo[o] = ""
        /\ m.convo[q] # ""

\* The prompt a call of the start tool is to carry: the preamble, when one is
\* configured, in front of the turn's prompt.
FirstPrompt ==
    IF Conf.Codex.Preamble # <<>> THEN Conf.Codex.Preamble \o Sep \o Prompt
    ELSE Prompt

\* C21: the call of a turn that found its owner unbound uses the start tool
\* with the prompt (behind the preamble when one is configured), the sandbox
\* workspace-write, the approval policy never, and the working directory
\* exactly when the owner has one; the call of a turn that found its owner
\* bound uses the reply tool with the stored token and the prompt, and with
\* no other argument.
C21_CallArguments ==
    \A c \in Callers :
        pc[c] \in {"send", "wait"} =>
            IF t[c].token = ""
            THEN /\ t[c].tool = "codex"
                 /\ {"prompt", "sandbox", "approval-policy"}
                        \subseteq DOMAIN t[c].args
                 /\ t[c].args["prompt"] = FirstPrompt
                 /\ t[c].args["sandbox"] = "workspace-write"
                 /\ t[c].args["approval-policy"] = "never"
                 /\ "cwd" \in DOMAIN t[c].args
                        <=> Conf.Channels[t[c].owner].Workdir # ""
                 /\ "cwd" \in DOMAIN t[c].args =>
                        t[c].args["cwd"] = Conf.Channels[t[c].owner].Workdir
            ELSE /\ t[c].tool = "codex-reply"
                 /\ DOMAIN t[c].args = {"conversationId", "prompt"}
                 /\ t[c].args["conversationId"] = t[c].token
                 /\ t[c].args["prompt"] = Prompt

\* C22: whatever notification the reader has just handled, the activity was
\* recorded: with a threshold configured, the last activity is now and the
\* idle timer is armed for a threshold after now.
C22_NotifyRearms ==
    rd.line.kind = "notif" =>
        /\ rd.touched
        /\ m.idleSeconds > 0 =>
              /\ m.lastActive = now
              /\ m.idleTimer = [armed |-> TRUE, at |-> now + m.idleSeconds]

\* The line is a message-final or a task-complete event of request i.
Closes(l, i) ==
    /\ l.kind = "notif" /\ l.method = "codex/event" /\ l.msg
    /\ l.typ \in {"agent_message", "task_complete"}
    /\ DecodeId(l.id).ok /\ DecodeId(l.id).n = i

\* The callbacks such an event of owner o is to invoke, by name, owner and
\* text: for a message-final the streaming-done callback with the final
\* text, then in either case the reasoning-end callback.
Closing_cbs(l, o) ==
    (IF l.typ = "agent_message" THEN <<[cb |-> "onAgentDone", owner |-> o,
                                        text |-> l.text]>>
     ELSE <<>>)
    \o <<[cb |-> "onReasoningEnd", owner |-> o, text |-> <<>>]>>

\* C23: when the reader has handled a message-final or task-complete event
\* of a request, the reasoning buffer of that request is empty, the buffers
\* of all other requests are as they were (whether or not the request's
\* buffer held anything), and for a request with an owner the callbacks
\* were invoked for that owner: streaming-done with the final text first
\* for a message-final, then reasoning-end.
C23_FinalClearsBuffer ==
    [][\A i \in Ids :
         Closes(rd'.line, i) =>
             /\ m'.reasonBuf[i] = <<>>
             /\ \A j \in Ids \ {i} : m'.reasonBuf[j] = m.reasonBuf[j]
             /\ rd'.owner # "" =>
                   [n \in 1..Len(rd'.cbs) |->
                       [cb |-> rd'.cbs[n].cb, owner |-> rd'.cbs[n].owner,
                        text |-> rd'.cbs[n].text]]
                     = Closing_cbs(rd'.line, rd'.owner)]_vars

\* C24: a response with an error member is delivered as a result is: the
\* reader removes the pending entry of its id and puts the error payload
\* into that waiter's channel; the turn that takes it returns it as its
\* reply, successfully, and leaves the children, the input stream and the
\* liveness flag as they are and sends nothing again.
C24_ErrorDelivered ==
    [][/\ \A i \in Ids :
             rd'.to = i /\ rd'.line.body.has = "error" =>
                 /\ i \in m.pending /\ i \notin m'.pending
                 /\ slot'[i] = rd'.line.body
       /\ \A c \in Callers :
             pc[c] = "wait" /\ pc'[c] = "done" /\ t'[c].res.has = "error" =>
                 /\ t'[c].ret = "ok" /\ t'[c].reply = <<t'[c].res>>
                 /\ t'[c].sends = t[c].sends
                 /\ proc' = proc /\ m'.cmd = m.cmd /\ m'.stdin = m.stdin
                 /\ m'.ready = m.ready]_vars

\* C25: a turn whose wait for the response ended in the request timeout
\* returns the timeout error, having sent its request once and restarted
\* nothing: it is never found in the forced teardown or in a second attempt.
C25_TimeoutSurfaced ==
    \A c \in Callers :
        t[c].err1 = "timeout" =>
            /\ pc[c] = "done" /\ t[c].ret = "timeout"
            /\ t[c].attempt = 1 /\ t[c].sends = 1 /\ t[c].starts = 0

\* The command line the precedence gives for the channel settings ch: the
\* owner's override, else the global default, else the built-in command.
Resolved(ch, builtin) ==
    IF ch.Command # "" THEN ch.Command
    ELSE IF Conf.Codex.Command # "" THEN Conf.Codex.Command
    ELSE builtin

\* C26: the interactive process of an owner's tail session is spawned with
\* the command line the precedence gives: override, global default,
\* built-in interactive command.
C26_TailCommand ==
    \A n \in Tails :
        its[n].st # "none" =>
            its[n].line = Resolved(Conf.Channels[its[n].owner],
                                   "codex -a never --sandbox workspace-write")

\* C27: the child a turn writes its request to was launched with the
\* settings of the turn's owner: the command line the precedence gives for
\* that owner, the owner's working directory, and an environment with the
\* owner's overlay.
C27_PerOwnerSettings ==
    [][\A c \in Callers :
         pc[c] = "send" /\ pc'[c] = "wait" /\ m.stdin # NoProc =>
             LET ch == Conf.Channels[t[c].owner] IN
             /\ proc[m.stdin].line = Resolved(ch, "codex mcp")
             /\ proc[m.stdin].dir = ch.Workdir
             /\ \A n \in 1..Len(ch.Env) :
                   \E j \in 1..Len(proc[m.stdin].env) :
                       proc[m.stdin].env[j] = ch.Env[n]]_vars

\* C29: the reader's send of a response never waits for a caller.  When the
\* reader delivers to request i, the entry of i was pending and is removed,
\* the channel of i, which holds one value, was empty and now holds the
\* payload, and the reader is back at its Scan; and the line it reads next,
\* if a routable event of a known owner, reaches that owner's callbacks.
C29_DeliverNeverBlocks ==
    [][/\ \A i \in Ids :
             rd'.to = i =>
                 /\ i \in m.pending /\ i \notin m'.pending
                 /\ slot[i] = NoVal /\ slot'[i] = rd'.line.body
                 /\ readLoopAt'[rd'.by].at = "scan"
       /\ rd.to # 0 /\ Routable(rd'.line) /\ rd'.owner # "" =>
             rd'.cbs # <<>>]_vars

\* C29: a response was delivered although no caller waits for it any more
\* (its wait has ended in a timeout or on the context), and the reader has
\* gone on.
C29_Witness ==
    /\ rd.to # 0 /\ rd.to \notin InFlight
    /\ slot[rd.to] = rd.line.body
    /\ readLoopAt[rd.by].at = "scan"

\* C30: the tailing task of a session is never held up, also while no call
\* of Chat is collecting from the session's queue: with every caller outside
\* Chat, whenever the agent may write another message to the session file,
\* the task can extract it and push it onto the queue.
C30_TailNeverBlocks ==
    \A n \in Tails :
        /\ \A c \in Callers : cpc[c] \in {"idle", "off"}
        /\ its[n].tail
        /\ left.lines > 0
        => ENABLED tailJSONL(n, "m1")

\* C28: the instance mutex is held only for short updates: a task that
\* holds m.mu is never at a write to the input stream, a wait for a
\* response, a spawn, a wait for the process, a callback or another
\* operation that can take long, never inside a call of another function,
\* never at a second Lock and never back from its function; so a task
\* waiting at a Lock is never waiting behind another task's wait.
C28_MutexBrief ==
    \A x \in LockTasks :
        /\ m.mu = x =>
              cur(x).op \notin Waits \cup {"call", "Lock", "ret", "none"}
        /\ cur(x).op = "Lock" /\ m.mu # "" => cur(m.mu).op \notin Waits

\* The reader holds the mutex while the caller waits for its response and
\* the idle timer's function is waiting at its Lock.
C28_Witness ==
    /\ m.mu = "readLoop"
    /\ cur("c1").op = "wait" /\ Head(pc["c1"]).f = "requestForChannel"
    /\ cur("AfterFunc").op = "Lock"

\* C31: every callback the reader invokes for an event names the owner that
\* is registered for the request the event's id decodes to, and a streaming
\* callback is given that request's id, for an id written as a number or
\* as a decimal string.
C31_CallbackAttribution ==
    \A i \in 1..Len(rd.cbs) :
        DecodeId(rd.line.id).ok /\ DecodeId(rd.line.id).n \in Ids =>
            /\ rd.cbs[i].owner = m.owners[DecodeId(rd.line.id).n]
            /\ rd.cbs[i].cb \in {"onAgentDelta", "onAgentDone"} =>
                  rd.cbs[i].req = DecodeId(rd.line.id).n

\* C32: the text the reasoning callback is given after a reasoning delta is
\* the concatenation, in arrival order, of the deltas of the request the
\* event's id decodes to since that request's last final message or
\* task_complete, cut to TruncLen characters; this for numeric and for
\* textual ids.
C32_ReasoningPerRequest ==
    /\ rd.line.kind = "notif" /\ rd.line.typ = "agent_reasoning_delta"
    /\ DecodeId(rd.line.id).ok /\ DecodeId(rd.line.id).n \in Ids
    => \A i \in 1..Len(rd.cbs) :
          rd.cbs[i].text = truncate(left.said[DecodeId(rd.line.id).n], TruncLen)

RECURSIVE After(_, _)
After(n, j) ==
    IF 3 * j > Len(its[n].log) THEN <<>>
    ELSE (IF 3 * j - 2 > its[n].base THEN <<its[n].log[3 * j - 2]>> ELSE <<>>)
            \o After(n, j + 1)

\* C34: the tailing task pushes the records appended after it opened the
\* file, each once and in file order, and no record from before: what it
\* has pushed is always the beginning of those records, and all of them
\* once it has read up to the end of the file, however the pieces of the
\* lines were written.
C34_TailFromEnd ==
    \A n \in Tails :
        its[n].tail =>
            /\ Len(its[n].pushed) <= Len(After(n, 1))
            /\ its[n].pushed = SubSeq(After(n, 1), 1, Len(its[n].pushed))
            /\ its[n].pos = Len(its[n].log) => its[n].pushed = After(n, 1)

\* C35: in the minimal bridge a first call of Chat does not deadlock: no
\* task is ever at a Lock of the mutex it holds itself, so the request
\* issued inside startLocked can take the mutex for its pending entry and
\* ensureStarted can return.
C35_NoSelfDeadlock ==
    \A x \in MinTasks : ~(cur(x).op = "Lock" /\ m.mu = x)

\* C36: the exit of a process that a restart has replaced leaves the
\* liveness flag of the newer Session as it is: the step of the exit watcher
\* of a process that is not the current one does not change m.ready.
C36_StaleExitIgnored ==
    [][\A p \in Procs :
          waitAt[p] = "waiting" /\ waitAt'[p] = "done" /\ m.cmd # p =>
              m'.ready = m.ready]_vars

\* C37: no request or notification is written through an input-stream
\* reference that has been cleared: no task calls Write on the absent
\* m.stdin, which would end the program.
C37_NoWriteOnAbsentStdin == ~crashed

\* C38: once Reset(o) has returned, owner o stays unbound until a turn
\* issued after the reset has chosen its tool: the result of a turn that was
\* in flight at the reset does not bind o again.
C38_ResetHolds ==
    \A o \in Owners : expect[o] = "codex" => m.convo[o] = ""

\* C39: Chat returns only a message that was extracted after its own prompt
\* was written: the message a successful call returns was not on the
\* session's queue before the call wrote its prompt.
C39_FreshReply ==
    \A c \in Callers :
        cpc[c] = "done" /\ cl[c].ret = "ok" => ~cl[c].stale

\* The tickers that run for a channel.
Ticking(ch) ==
    {n \in 1..Len(tickers) : tickers[n].ch = ch /\ tickers[n].on}

\* The turn of message event e is going on: its handler has accepted the
\* message and has not returned, or it has returned without replies and
\* EndStream has not been called for its request.
InTurn(e) ==
    \/ mc[e].at \in {"set", "chat", "wait"}
    \/ mc[e].at = "done" /\ mc[e].id # 0 /\ ~mc[e].told /\ ~mc[e].ended

\* The channel has had a turn, and every turn in it is over.
TurnsOver(ch) ==
    /\ \E e \in Events : mc[e].ch = ch /\ mc[e].id # 0
    /\ \A e \in Events : mc[e].ch = ch => ~InTurn(e)

\* C40: at most one typing ticker runs per channel at any time, and once
\* the turns of a channel are over (replies posted, error reported, or the
\* stream finalized by EndStream, with or without a delta before the final
\* message), the ticker that was started when a message was accepted is
\* eventually stopped.
C40_TypingStops ==
    /\ [](\A ch \in Owners : Cardinality(Ticking(ch)) <= 1)
    /\ \A ch \in Owners :
          TurnsOver(ch) ~>
              (\A n \in Ticking(ch) : tickers[n].by # "accept")

====
